---- MODULE Spec2Model ----
(***************************************************************************)
(* Model of the multi-tier fallback extraction and reconciliation pipeline *)
(* of Insider-Screen:                                                      *)
(*   - ProductionWindowBreaker   (src/production_circuit_breaker.py)       *)
(*   - MultiTierRevenueFallback  (src/revenue_fallback_system.py)          *)
(*   - IntegrationPipeline       (src/final_integration_pipeline.py)       *)
(*   - normalize_record, tabulate (src/financial_tabulator.py)             *)
(*   - the growth routines       (src/financial_metrics.py and others)     *)
(*   - the four HTTP clients that guard requests with a breaker            *)
(*   - ParallelDataIntegrator    (src/parallel_data_integrator.py)         *)
(* Each component has its own specification (SpecBreaker, SpecExtract,     *)
(* SpecCascade, SpecCombine, SpecReconcile, SpecNormalize, SpecMetrics,    *)
(* SpecClients, SpecBreakerSerial, SpecPost, SpecMerge, SpecBreakerKeys,    *)
(* SpecCache); the variables of the others stay at their initial value.    *)
(***************************************************************************)
EXTENDS Integers, Sequences, FiniteSets, TLC

VARIABLES
    \* ---- ProductionWindowBreaker ----
    fail_threshold,     \* self.fail_threshold
    window_sec,         \* self.window_sec
    open_sec,           \* self.open_sec
    halfopen_max,       \* self.halfopen_max
    now,                \* the clock read by _now()
    fail_events,        \* dict key -> deque of failure timestamps
    state,              \* dict key -> "closed" / "open" / "half-open"
    open_until,         \* dict key -> timestamp
    halfopen_inflight,  \* dict key -> count of in-flight half-open requests
    pc,                 \* position of each caller in allow/on_attempt/record_*/on_attempt_done
    pkey,               \* the key each caller works on
    probe,              \* history: the caller's attempt was started by on_attempt in half-open
    tripTime,           \* history: key -> time of the last failure that opened the circuit
    sources,            \* the keys (source names) the callers use
    \* ---- MultiTierRevenueFallback: primary extraction ----
    facts_source,       \* the argument of safe_extract_revenue
    epc,                \* "start", then "returned" or "raised"
    eresult,            \* what safe_extract_revenue returned, or the exception it raised
    \* ---- MultiTierRevenueFallback: revenue_fallback_cascade ----
    primary_result,     \* the argument primary_result
    origin,             \* history: who built primary_result
    cpc,                \* position in revenue_fallback_cascade
    tier1_result,       \* the local tier1_result
    tier2_result,       \* the local tier2_result
    tier3_result,       \* the local tier3_result
    invoked,            \* history: the tiers invoked so far, in order
    ret,                \* the value revenue_fallback_cascade returned
    \* ---- financial_tabulator and IntegrationPipeline ----
    scraped_records,    \* the records handed to tabulate / dataframe_from_scraped
    edgar_records,      \* the records handed to tabulate / dataframe_from_offline_edgar
    scraped_df,         \* the table built from scraped_records
    edgar_df,           \* the table built from edgar_records
    prefer,             \* the argument prefer of combine
    merged,             \* what combine returned, or the exception it raised
    \* ---- financial_tabulator: normalize_record and tabulate, applied twice ----
    norm_in,            \* the record handed to normalize_record
    norm_out,           \* what normalize_record returned for norm_in
    norm_twice,         \* what normalize_record returned for norm_out
    tab_in,             \* the records handed to tabulate
    tab_out,            \* the table tabulate returned for tab_in
    tab_twice,          \* the table tabulate returned for the rows of tab_out
    \* ---- financial_metrics and GrowthCalculator ----
    arg_previous,       \* the argument previous / start
    arg_current,        \* the argument current / end
    arg_periods,        \* the argument periods
    routine,            \* the routine that was called
    outcome,            \* what the routine returned, or the exception it raised
    \* ---- the HTTP clients that guard their requests with a breaker ----
    client,             \* the client object: which of the four classes it is
    failures,           \* the failure count its breaker holds for the source
    circuit,            \* the state its breaker holds for the source
    cooled,             \* the clock has passed the open_until of the source
    trace,              \* history: the requests the last call sent, in order
    call,               \* how the last call ended
    \* ---- IntegrationPipeline._post on a table of its own ----
    post_cols,          \* self.value_cols of the pipeline
    post_in,            \* the argument df
    post_out,           \* the table _post returned
    \* ---- ParallelDataIntegrator._merge_multiple_data_sources ----
    merge_in,           \* the five results handed to the merge, by source tag
    merge_out,          \* merged_data as returned
    \* ---- tier2_local_cache_db on a cache of its own ----
    cache_db,           \* what db.get returns for each of the cache keys
    cache_result        \* what tier2_local_cache_db returned

bvars == <<fail_threshold, window_sec, open_sec, halfopen_max, now, fail_events,
           state, open_until, halfopen_inflight, pc, pkey, probe, tripTime, sources>>

evars == <<facts_source, epc, eresult>>

cvars == <<primary_result, origin, cpc, tier1_result, tier2_result, tier3_result,
           invoked, ret>>

pvars == <<scraped_records, edgar_records, scraped_df, edgar_df, prefer, merged>>

nvars == <<norm_in, norm_out, norm_twice, tab_in, tab_out, tab_twice>>

mvars == <<arg_previous, arg_current, arg_periods, routine, outcome>>

\* the variables of the components added to the first four
hvars == <<client, failures, circuit, cooled, trace, call>>

gvars == <<post_cols, post_in, post_out>>

ivars == <<merge_in, merge_out>>

kvars == <<cache_db, cache_result>>

xvars == <<nvars, mvars, hvars, gvars, ivars, kvars>>

vars == <<bvars, evars, cvars, pvars, xvars>>

(***************************************************************************)
(* Bounds of the model.                                                    *)
(***************************************************************************)
MaxTime == 3
MaxThreshold == 2
MaxWindow == 2
MaxOpen == 2
MaxHalfOpen == 2
MaxFacts == 2

Procs == {"p1", "p2", "p3"}

(***************************************************************************)
(* Python dicts: a function whose domain is the set of keys present.       *)
(***************************************************************************)
EmptyDict == [k \in {} |-> 0]

\* dict.get(key, default)
Get(d, k, default) == IF k \in DOMAIN d THEN d[k] ELSE default

\* a store that writes v under every key of the dict
PutAll(d, k, v) == [x \in DOMAIN d \cup {k} |-> v]

\* d[key] = v
Put(d, k, v) == [x \in DOMAIN d \cup {k} |-> IF x = k THEN v ELSE d[x]]

Max(a, b) == IF a >= b THEN a ELSE b

(***************************************************************************)
(* ProductionWindowBreaker                                                 *)
(***************************************************************************)

\* _prune_old_failures: pop from the left while the oldest timestamp is
\* before the cutoff now - window_sec
RECURSIVE PruneOldFailures(_, _)
PruneOldFailures(dq, cutoff) ==
    IF dq # <<>> /\ Head(dq) < cutoff
    THEN PruneOldFailures(Tail(dq), cutoff)
    ELSE dq

\* allow(key)
AllowResult(k) ==
    LET current_state == Get(state, k, "closed") IN
    IF current_state = "open"
    THEN now > Get(open_until, k, 0)
    ELSE IF current_state = "half-open"
         THEN Get(halfopen_inflight, k, 0) < halfopen_max
         ELSE TRUE

\* get_state(key)
GetState(k) == Get(state, k, "closed")

\* the deque after an append without the prune
FailuresUnpruned(k) == Append(Get(fail_events, k, <<>>), now)

\* the deque after record_failure's prune and append
FailuresAfterRecord(k) ==
    Append(PruneOldFailures(Get(fail_events, k, <<>>), now - window_sec), now)

\* record_failure's test for opening the circuit
ShouldOpen(dq) == Len(dq) >= fail_threshold

\* the state dict after on_attempt's open -> half-open transition
StateAfterAttempt(k) ==
    IF Get(state, k, "closed") = "open" /\ now > Get(open_until, k, 0)
    THEN Put(state, k, "half-open")
    ELSE state

NoResult == [none |-> TRUE]

ExtractIdle ==
    /\ facts_source = [kind |-> "none"]
    /\ epc = "idle"
    /\ eresult = NoResult

NormalizeIdle ==
    /\ norm_in = <<>>
    /\ norm_out = NoResult
    /\ norm_twice = NoResult
    /\ tab_in = <<>>
    /\ tab_out = NoResult
    /\ tab_twice = NoResult

MetricsIdle ==
    /\ arg_previous = <<>>
    /\ arg_current = <<>>
    /\ arg_periods = 0
    /\ routine = "none"
    /\ outcome = NoResult

ClientsIdle ==
    /\ client = "none"
    /\ failures = 0
    /\ circuit = "closed"
    /\ cooled = FALSE
    /\ trace = <<>>
    /\ call = "none"

PostIdle ==
    /\ post_cols = {}
    /\ post_in = NoResult
    /\ post_out = NoResult

MergeIdle ==
    /\ merge_in = NoResult
    /\ merge_out = NoResult

CacheIdle ==
    /\ cache_db = <<>>
    /\ cache_result = NoResult

ExtraIdle ==
    NormalizeIdle /\ MetricsIdle /\ ClientsIdle /\ PostIdle /\ MergeIdle /\ CacheIdle

CombineIdle ==
    /\ scraped_records = <<>>
    /\ edgar_records = <<>>
    /\ scraped_df = NoResult
    /\ edgar_df = NoResult
    /\ prefer = "edgar"
    /\ merged = NoResult

CascadeIdle ==
    /\ primary_result = NoResult
    /\ origin = "none"
    /\ cpc = "idle"
    /\ tier1_result = NoResult
    /\ tier2_result = NoResult
    /\ tier3_result = NoResult
    /\ invoked = <<>>
    /\ ret = NoResult

BreakerInit ==
    /\ fail_threshold \in 1..MaxThreshold
    /\ window_sec \in 1..MaxWindow
    /\ open_sec \in 1..MaxOpen
    /\ halfopen_max \in 1..MaxHalfOpen
    /\ now = 0
    /\ fail_events = EmptyDict
    /\ state = EmptyDict
    /\ open_until = EmptyDict
    /\ halfopen_inflight = EmptyDict
    /\ pc = [p \in Procs |-> "idle"]
    /\ pkey = [p \in Procs |-> "none"]
    /\ probe = [p \in Procs |-> FALSE]
    /\ tripTime = EmptyDict
    /\ sources = {"sec"}

\* a caller asks allow(key); on False it skips the source
Allow(p, k) ==
    /\ pc[p] = "idle"
    /\ IF AllowResult(k)
       THEN /\ pc' = [pc EXCEPT ![p] = "allowed"]
            /\ pkey' = [pkey EXCEPT ![p] = k]
       ELSE UNCHANGED <<pc, pkey>>
    /\ UNCHANGED <<fail_threshold, window_sec, open_sec, halfopen_max, now, fail_events,
                   state, open_until, halfopen_inflight, probe, tripTime, sources>>

\* on_attempt(key)
OnAttempt(p) ==
    LET k == pkey[p]
        state1 == StateAfterAttempt(k)
        transition == state1 # state
        inflight1 == IF transition
                     THEN Put(halfopen_inflight, k, Get(halfopen_inflight, k, 0))
                     ELSE halfopen_inflight
        isProbe == k \in DOMAIN state1 /\ state1[k] = "half-open"
    IN
    /\ pc[p] = "allowed"
    /\ state' = state1
    /\ halfopen_inflight' = IF isProbe
                            THEN Put(inflight1, k, Get(inflight1, k, 0) + 1)
                            ELSE inflight1
    /\ pc' = [pc EXCEPT ![p] = "inflight"]
    /\ probe' = [probe EXCEPT ![p] = isProbe]
    /\ UNCHANGED <<fail_threshold, window_sec, open_sec, halfopen_max, now, fail_events,
                   open_until, pkey, tripTime, sources>>

\* record_success(key)
RecordSuccess(p) ==
    LET k == pkey[p] IN
    /\ pc[p] = "inflight"
    /\ state' = Put(state, k, "closed")
    /\ halfopen_inflight' = Put(halfopen_inflight, k, 0)
    /\ fail_events' = Put(fail_events, k, <<>>)
    /\ pc' = [pc EXCEPT ![p] = "recorded"]
    /\ UNCHANGED <<fail_threshold, window_sec, open_sec, halfopen_max, now,
                   open_until, pkey, probe, tripTime, sources>>

\* record_failure(key)
RecordFailure(p) ==
    LET k == pkey[p]
        dq == FailuresAfterRecord(k)
    IN
    /\ pc[p] = "inflight"
    /\ fail_events' = Put(fail_events, k, dq)
    /\ IF ShouldOpen(dq)
       THEN /\ state' = Put(state, k, "open")
            /\ open_until' = Put(open_until, k, now + open_sec)
            /\ tripTime' = Put(tripTime, k, now)
       ELSE UNCHANGED <<state, open_until, tripTime>>
    /\ pc' = [pc EXCEPT ![p] = "recorded"]
    /\ UNCHANGED <<fail_threshold, window_sec, open_sec, halfopen_max, now,
                   halfopen_inflight, pkey, probe, sources>>

\* on_attempt_done(key)
OnAttemptDone(p) ==
    LET k == pkey[p]
        half == k \in DOMAIN state /\ state[k] = "half-open"
    IN
    /\ pc[p] = "recorded"
    /\ halfopen_inflight' = IF half
                            THEN Put(halfopen_inflight, k,
                                     Max(0, Get(halfopen_inflight, k, 0) - 1))
                            ELSE halfopen_inflight
    /\ pc' = [pc EXCEPT ![p] = "idle"]
    /\ probe' = [probe EXCEPT ![p] = FALSE]
    /\ UNCHANGED <<fail_threshold, window_sec, open_sec, halfopen_max, now, fail_events,
                   state, open_until, pkey, tripTime, sources>>

\* get_failure_count(key): prunes, then counts
GetFailureCount(k) ==
    LET dq == PruneOldFailures(Get(fail_events, k, <<>>), now - window_sec) IN
    /\ fail_events' = Put(fail_events, k, dq)
    /\ UNCHANGED <<fail_threshold, window_sec, open_sec, halfopen_max, now,
                   state, open_until, halfopen_inflight, pc, pkey, probe, tripTime, sources>>

\* time.time() advances
Tick ==
    /\ now < MaxTime
    /\ now' = now + 1
    /\ UNCHANGED <<fail_threshold, window_sec, open_sec, halfopen_max, fail_events,
                   state, open_until, halfopen_inflight, pc, pkey, probe, tripTime, sources>>

\* the breaker leaves the other components alone
BreakerFrame == UNCHANGED <<evars, cvars, pvars, xvars>>

BreakerNext ==
    \/ \E p \in Procs, k \in sources : Allow(p, k) /\ BreakerFrame
    \/ \E p \in Procs : OnAttempt(p) /\ BreakerFrame
    \/ \E p \in Procs : RecordSuccess(p) /\ BreakerFrame
    \/ \E p \in Procs : RecordFailure(p) /\ BreakerFrame
    \/ \E p \in Procs : OnAttemptDone(p) /\ BreakerFrame
    \/ \E k \in sources : GetFailureCount(k) /\ BreakerFrame
    \/ Tick /\ BreakerFrame

InitBreaker == BreakerInit /\ ExtractIdle /\ CascadeIdle /\ CombineIdle /\ ExtraIdle

SpecBreaker == InitBreaker /\ [][BreakerNext]_vars

\* the attempts of key k that on_attempt started as half-open probes and that
\* have not called on_attempt_done yet
ProbesInFlight(k) ==
    {p \in Procs : pc[p] \in {"inflight", "recorded"} /\ pkey[p] = k /\ probe[p]}

\* C1: once a failure has tripped the breaker of a key (fail_threshold failures
\* within window_sec), allow(key) returns false at every time up to the time of
\* the tripping failure + open_sec, whatever operations happen in between.
C1_OpenUntilCooldown ==
    \A k \in DOMAIN tripTime :
        now <= tripTime[k] + open_sec => ~AllowResult(k)

\* C2: while a key is half-open, at most halfopen_max probes of that key are
\* in flight at the same time.
C2_ProbesBounded ==
    \A k \in sources :
        GetState(k) = "half-open" => Cardinality(ProbesInFlight(k)) <= halfopen_max

\* C3: a probe of a half-open key that ends in record_success leaves the key
\* closed, and one that ends in record_failure leaves the key open with
\* open_until = time of the failure + open_sec.
C3_ProbeOutcome ==
    [][\A p \in Procs :
          (probe[p] /\ GetState(pkey[p]) = "half-open") =>
              /\ RecordSuccess(p) => Get(state', pkey[p], "closed") = "closed"
              /\ RecordFailure(p) =>
                    /\ Get(state', pkey[p], "closed") = "open"
                    /\ Get(open_until', pkey[p], 0) = now + open_sec]_vars


(***************************************************************************)
(* MultiTierRevenueFallback: results, exceptions and _deduplicate_periods  *)
(***************************************************************************)

\* the outcome of a call: a returned value or a raised exception
Return(v) == [raised |-> FALSE, value |-> v]
Raise(type, msg) == [raised |-> TRUE, exc |-> type, msg |-> msg]

\* bool(list)
NonEmpty(seq) == Len(seq) > 0

\* result.get('annual') or result.get('quarterly')
HasData(r) == NonEmpty(Get(r, "annual", <<>>)) \/ NonEmpty(Get(r, "quarterly", <<>>))

AnnualCap == 5
QuarterlyCap == 20

\* the composite key _deduplicate_periods builds for a period
PeriodKey(period, period_type) ==
    IF period_type = "annual"
    THEN <<Get(period, "fiscal_year", 0), Get(period, "value", 0)>>
    ELSE <<Get(period, "fiscal_year", 0), Get(period, "fiscal_quarter", ""),
           Get(period, "value", 0)>>

\* the first loop of _deduplicate_periods: keep the first period of each key
RECURSIVE UniquePeriods(_, _, _)
UniquePeriods(periods, period_type, seen) ==
    IF periods = <<>> THEN <<>>
    ELSE LET key == PeriodKey(Head(periods), period_type) IN
         IF key \in seen
         THEN UniquePeriods(Tail(periods), period_type, seen)
         ELSE <<Head(periods)>> \o UniquePeriods(Tail(periods), period_type, seen \cup {key})

\* list.sort(key=fiscal_year, reverse=True): stable, descending
RECURSIVE InsertByYearDesc(_, _)
InsertByYearDesc(sorted, period) ==
    IF sorted = <<>> THEN <<period>>
    ELSE IF Get(Head(sorted), "fiscal_year", 0) >= Get(period, "fiscal_year", 0)
         THEN <<Head(sorted)>> \o InsertByYearDesc(Tail(sorted), period)
         ELSE <<period>> \o sorted

RECURSIVE SortByYearDesc(_)
SortByYearDesc(periods) ==
    IF periods = <<>> THEN <<>>
    ELSE InsertByYearDesc(SortByYearDesc(SubSeq(periods, 1, Len(periods) - 1)),
                          periods[Len(periods)])

\* seq[:n]
Take(seq, n) == SubSeq(seq, 1, IF Len(seq) < n THEN Len(seq) ELSE n)

\* _deduplicate_periods
DeduplicatePeriods(periods, period_type) ==
    IF periods = <<>> THEN <<>>
    ELSE Take(SortByYearDesc(UniquePeriods(periods, period_type, {})),
              IF period_type = "annual" THEN AnnualCap ELSE QuarterlyCap)

\* [f(x) for x in seq]
MapSeq(seq, f(_)) == [i \in 1..Len(seq) |-> f(seq[i])]

(***************************************************************************)
(* MultiTierRevenueFallback: fix_posixpath_error and safe_extract_revenue  *)
(***************************************************************************)

revenue_variants ==
    <<"Revenues", "RevenueFromContractWithCustomerExcludingAssessedTax",
      "SalesRevenueNet", "RevenueFromContractWithCustomer", "RevenuesNet",
      "TotalRevenues">>

\* the facts of units.USD that the documents of the model carry
FactSet ==
    [form : {"10-K", "10-Q", "8-K"}, frame : {"", "CY2023"}, fy : {2022, 2023},
     val : {100}, end : {"2023-12-31"}, filed : {"2024-02-01"}]

FactLists == UNION {[1..n -> FactSet] : n \in 0..MaxFacts}

\* a us-gaap tag: {} ("empty"), a dict without units ("label_only"), or a
\* dict with units.USD ("units")
TagShapes == {"absent", "empty", "label_only", "units"}
TagNames == {"Revenues", "RevenueFromContractWithCustomerExcludingAssessedTax",
             "SalesRevenueNet"}

\* the source is a path whose file is missing or is no JSON, a path of a
\* JSON file ("file"), a loaded dict ("dict") or another object ("other");
\* facts is the 'facts' entry (absent, null or a dict), us_gaap its 'us-gaap'
\* entry (absent, a list or a dict of tags); usd is the units.USD list of
\* every tag of shape "units"
NoData == [facts |-> "absent", us_gaap |-> "absent",
           tags |-> [t \in TagNames |-> "absent"], usd |-> <<>>]

FactsData ==
    {NoData, [NoData EXCEPT !.facts = "null"],
     [NoData EXCEPT !.facts = "dict", !.us_gaap = "list"]}
    \cup [facts : {"dict"}, us_gaap : {"dict"}, tags : [TagNames -> TagShapes],
          usd : FactLists]

Sources ==
    [kind : {"missing_file", "bad_json", "other"}, data : {NoData}]
    \cup [kind : {"file", "dict"}, data : FactsData]

\* the first variant of revenue_variants present in us_gaap, or "" if none
RECURSIVE FirstVariant(_, _)
FirstVariant(variants, tags) ==
    IF variants = <<>> THEN ""
    ELSE IF Head(variants) \in DOMAIN tags /\ tags[Head(variants)] # "absent"
         THEN Head(variants)
         ELSE FirstVariant(Tail(variants), tags)

ConvertAnnual(fact) ==
    [value |-> Get(fact, "val", 0), fiscal_year |-> Get(fact, "fy", 2023),
     end_date |-> Get(fact, "end", "2023-12-31"),
     extraction_method |-> "primary_edgar_facts",
     sec_form |-> Get(fact, "form", "10-K")]

ConvertQuarterly(fact) ==
    [value |-> Get(fact, "val", 0), fiscal_year |-> Get(fact, "fy", 2023),
     fiscal_quarter |-> Get(fact, "fp", "Q1"),
     end_date |-> Get(fact, "end", "2023-03-31"),
     extraction_method |-> "primary_edgar_facts",
     sec_form |-> Get(fact, "form", "10-Q")]

IsAnnualFact(fact) == Get(fact, "form", "") = "10-K" /\ Get(fact, "frame", "") = ""
IsQuarterlyFact(fact) == Get(fact, "form", "") = "10-Q" /\ Get(fact, "frame", "") = ""

\* the body of fix_posixpath_error's try block: the result, or the exception
\* that its except clause wraps
ExtractFacts(src) ==
    LET d == src.data
        fact_used == FirstVariant(revenue_variants, d.tags)
        annual == DeduplicatePeriods(SelectSeq(d.usd, IsAnnualFact), "annual")
        quarterly == DeduplicatePeriods(SelectSeq(d.usd, IsQuarterlyFact), "quarterly")
        converted_annual == MapSeq(annual, ConvertAnnual)
        converted_quarterly == MapSeq(quarterly, ConvertQuarterly)
    IN
    IF src.kind = "missing_file" THEN Raise("FileNotFoundError", "Facts file not found")
    ELSE IF src.kind = "bad_json" THEN Raise("JSONDecodeError", "Expecting value")
    ELSE IF src.kind = "other" \/ d.facts = "null"
         THEN Raise("AttributeError", "object has no attribute 'get'")
    ELSE IF d.facts = "absent" \/ d.us_gaap = "absent"
         THEN Raise("RevenueExtractionError", "No us-gaap facts found in loaded data")
    ELSE IF d.us_gaap = "list"
         THEN Raise("AttributeError", "'list' object has no attribute 'keys'")
    ELSE IF fact_used = "" \/ d.tags[fact_used] = "empty"
         THEN Raise("RevenueExtractionError", "No revenue facts found")
    ELSE IF d.tags[fact_used] = "label_only" \/ d.usd = <<>>
         THEN Raise("RevenueExtractionError", "No USD units found in revenue facts")
    ELSE Return([annual |-> converted_annual,
                 quarterly |-> converted_quarterly,
                 fact_used |-> fact_used,
                 total_periods |-> Len(converted_annual) + Len(converted_quarterly),
                 extraction_method |-> "primary_edgar_facts"])

\* fix_posixpath_error: every exception leaves as a RevenueExtractionError
FixPosixpathError(src) ==
    LET o == ExtractFacts(src) IN
    IF o.raised
    THEN Raise("RevenueExtractionError", "Primary extraction failed: " \o o.msg)
    ELSE o

\* the tag safe_extract_revenue's recovery reads: the first truthy one of
\* RevenueFromContractWithCustomerExcludingAssessedTax and SalesRevenueNet
AltRevenue(tags) ==
    IF tags["RevenueFromContractWithCustomerExcludingAssessedTax"] \notin {"absent", "empty"}
    THEN "RevenueFromContractWithCustomerExcludingAssessedTax"
    ELSE IF tags["SalesRevenueNet"] \notin {"absent", "empty"}
         THEN "SalesRevenueNet"
         ELSE ""

\* the except clause of safe_extract_revenue
RecoverOrSignal(src, msg) ==
    LET d == src.data
        signal == Return([annual |-> <<>>, quarterly |-> <<>>, error |-> msg,
                          needs_fallback |-> TRUE])
    IN
    IF src.kind # "dict" THEN signal
    ELSE IF d.facts = "null" \/ (d.facts = "dict" /\ d.us_gaap = "list")
         THEN Raise("AttributeError", "object has no attribute 'get'")
    ELSE IF d.facts = "dict" /\ d.us_gaap = "dict" /\ AltRevenue(d.tags) # ""
         THEN Return([annual |-> <<>>, quarterly |-> <<>>,
                      recovered |-> AltRevenue(d.tags),
                      extraction_method |-> "recovery"])
    ELSE signal

\* safe_extract_revenue
SafeExtractRevenueResult(src) ==
    LET o == FixPosixpathError(src) IN
    IF o.raised THEN RecoverOrSignal(src, o.msg) ELSE o

(***************************************************************************)
(* Strings and numbers the tiers convert                                   *)
(***************************************************************************)

\* s.replace(',', '') on the number strings of the model
StripCommas(s) == IF s = "1,000" THEN "1000" ELSE IF s = "," THEN "" ELSE s

\* float(s): the value, or ValueError
FloatOfString(s) ==
    IF s = "100" THEN Return(100)
    ELSE IF s = "1000" THEN Return(1000)
    ELSE Raise("ValueError", "could not convert string to float")

\* int(year) on the four-digit strings of the model
IntOfYear(y) == IF y = "2022" THEN 2022 ELSE 2023

\* value *= 1e6 / 1e9
UnitMultiplier(unit) ==
    IF unit = "million" THEN 1000000
    ELSE IF unit = "billion" THEN 1000000000
    ELSE 1

\* Python values read from the cache: a number, a string or None
Num(n) == [t |-> "num", n |-> n]
Str(x) == [t |-> "str", s |-> x]
PyNone == [t |-> "none"]

\* bool(v)
Truthy(v) == (v.t = "num" /\ v.n # 0) \/ (v.t = "str" /\ v.s # "")

\* float(v): the value, ValueError for a string that is no number, TypeError
\* for None
FloatOf(v) ==
    IF v.t = "num" THEN Return(v.n)
    ELSE IF v.t = "str" THEN FloatOfString(v.s)
    ELSE Raise("TypeError", "float() argument must be a string or a real number")

(***************************************************************************)
(* Tier 1: tier1_parse_local_filings                                       *)
(***************************************************************************)

MaxMatches == 2

\* what the regex patterns capture in the text of the filing: pattern 1 has
\* four groups (value, unit, period, year), patterns 2-4 have two (value, unit)
FilingMatches ==
    {[groups |-> 4, value_str |-> v, unit |-> "million", period |-> pd, year |-> y] :
        v \in {"100", ","}, pd \in {"fiscal year", "quarter"}, y \in {"2022", "2023"}}
    \cup {[groups |-> 2, value_str |-> v, unit |-> "", period |-> "", year |-> ""] :
            v \in {"1,000", ","}}

FilingMatchLists == UNION {[1..n -> FilingMatches] : n \in 0..MaxMatches}

Tier1Envs ==
    {[filing |-> f, matches |-> <<>>] : f \in {"none", "unreadable", "notext"}}
    \cup {[filing |-> "text", matches |-> ms] : ms \in FilingMatchLists}

\* float(value_str) succeeded (the match is not skipped)
Tier1Parses(m) == ~FloatOfString(StripCommas(m.value_str)).raised

Tier1PeriodInfo(m) == IF m.groups > 2 THEN m.period ELSE ""
Tier1Year(m) == IF m.groups > 3 THEN m.year ELSE "2023"

\* 'year' in period_info.lower()
Tier1IsAnnual(m) == Tier1Parses(m) /\ Tier1PeriodInfo(m) = "fiscal year"
Tier1IsQuarterly(m) == Tier1Parses(m) /\ Tier1PeriodInfo(m) # "fiscal year"

Tier1Entry(m) ==
    [value |-> FloatOfString(StripCommas(m.value_str)).value * UnitMultiplier(m.unit),
     fiscal_year |-> IntOfYear(Tier1Year(m)),
     end_date |-> Tier1Year(m) \o "-12-31",
     extraction_method |-> "tier1_filing_parse"]

Tier1Failed(msg) ==
    [annual |-> <<>>, quarterly |-> <<>>, error |-> "Tier 1 failed: " \o msg]

\* tier1_parse_local_filings
Tier1ParseLocalFilings(env) ==
    LET annual == DeduplicatePeriods(
                      MapSeq(SelectSeq(env.matches, Tier1IsAnnual), Tier1Entry), "annual")
        quarterly == DeduplicatePeriods(
                      MapSeq(SelectSeq(env.matches, Tier1IsQuarterly), Tier1Entry), "quarterly")
    IN
    IF env.filing = "none" THEN Tier1Failed("No cached filings found")
    ELSE IF env.filing = "unreadable" THEN Tier1Failed("'utf-8' codec can't decode byte")
    ELSE IF env.filing = "notext" THEN Tier1Failed("No text extracted from filing")
    ELSE IF NonEmpty(annual) \/ NonEmpty(quarterly)
         THEN [annual |-> annual, quarterly |-> quarterly,
               extraction_method |-> "tier1_filing_parse", source_file |-> "filing"]
         ELSE Tier1Failed("No revenue data extracted from filing")

(***************************************************************************)
(* Tier 2: tier2_local_cache_db                                            *)
(***************************************************************************)

MaxRecords == 1

cache_keys == <<"revenue_cache", "financial_cache", "yahoo_data">>

\* the elements of a cached list: dicts with some of the keys revenue,
\* total_revenue, year, fiscal_year, period_type, or something that is no dict
CacheRecords ==
    {[revenue |-> Num(100), year |-> 2023],
     [total_revenue |-> Num(100), fiscal_year |-> 2022, period_type |-> "quarterly"],
     [revenue |-> Str("n/a"), year |-> 2023],
     [year |-> 2023],
     [nondict |-> TRUE]}

\* the rows of a cached columnar dict {'revenue': {idx: v}, 'year': {idx: y}}
ColumnRows ==
    {[revenue |-> Num(100), year |-> 2022], [revenue |-> Num(100)],
     [revenue |-> Str("n/a")], [revenue |-> PyNone]}

\* a cached list of two fiscal years, the older one first
CacheHistory ==
    <<[revenue |-> Num(100), year |-> 2022], [revenue |-> Num(200), year |-> 2023]>>

CacheRecordLists == UNION {[1..n -> CacheRecords] : n \in 0..MaxRecords} \cup {CacheHistory}
ColumnRowLists == UNION {[1..n -> ColumnRows] : n \in 0..MaxRecords}

\* what db.get(cache_key) returns: nothing, a string that is no JSON, a list
\* of records, a dict with or without a 'revenue' column, or a scalar
CacheEntries ==
    {[shape |-> "none"], [shape |-> "bad_json"], [shape |-> "scalar"],
     [shape |-> "dict", has_revenue |-> FALSE, rows |-> <<>>]}
    \cup {[shape |-> "list", records |-> rs] : rs \in CacheRecordLists}
    \cup {[shape |-> "dict", has_revenue |-> TRUE, rows |-> rs] : rs \in ColumnRowLists}

Tier2Envs == [1..Len(cache_keys) -> CacheEntries]

\* record.get('revenue') or record.get('total_revenue')
RecordRevenue(record) ==
    IF Truthy(Get(record, "revenue", PyNone))
    THEN Get(record, "revenue", PyNone)
    ELSE Get(record, "total_revenue", PyNone)

\* record.get('year') or record.get('fiscal_year')
RecordYear(record) ==
    IF "year" \in DOMAIN record THEN record.year
    ELSE IF "fiscal_year" \in DOMAIN record THEN record.fiscal_year
    ELSE PyNone

\* the loop over a cached list: the entries [annual, quarterly] collected, or
\* the exception that ends it
RECURSIVE ListEntries(_, _, _, _)
ListEntries(records, cache_key, annual, quarterly) ==
    IF records = <<>> THEN Return([annual |-> annual, quarterly |-> quarterly])
    ELSE LET record == Head(records) IN
         IF "nondict" \in DOMAIN record
         THEN Raise("AttributeError", "object has no attribute 'get'")
         ELSE IF ~Truthy(RecordRevenue(record))
         THEN ListEntries(Tail(records), cache_key, annual, quarterly)
         ELSE IF FloatOf(RecordRevenue(record)).raised
         THEN FloatOf(RecordRevenue(record))
         ELSE LET entry == [value |-> FloatOf(RecordRevenue(record)).value,
                            fiscal_year |-> RecordYear(record),
                            extraction_method |-> "tier2_cache_db",
                            cache_source |-> cache_key]
              IN IF Get(record, "period_type", "annual") = "annual"
                 THEN ListEntries(Tail(records), cache_key, Append(annual, entry), quarterly)
                 ELSE ListEntries(Tail(records), cache_key, annual, Append(quarterly, entry))

\* the loop over the 'revenue' column of a cached dict
RECURSIVE ColumnEntries(_, _, _)
ColumnEntries(rows, cache_key, annual) ==
    IF rows = <<>> THEN Return([annual |-> annual, quarterly |-> <<>>])
    ELSE LET row == Head(rows) IN
         IF FloatOf(row.revenue).raised THEN FloatOf(row.revenue)
         ELSE ColumnEntries(Tail(rows), cache_key,
                  Append(annual, [value |-> FloatOf(row.revenue).value,
                                  fiscal_year |-> Get(row, "year", 2023),
                                  extraction_method |-> "tier2_cache_db",
                                  cache_source |-> cache_key]))

\* the inner try block for one cache key
CacheKeyEntries(entry, cache_key) ==
    IF entry.shape = "bad_json" THEN Raise("JSONDecodeError", "Expecting value")
    ELSE IF entry.shape = "list" THEN ListEntries(entry.records, cache_key, <<>>, <<>>)
    ELSE IF entry.shape = "dict" /\ entry.has_revenue
         THEN ColumnEntries(entry.rows, cache_key, <<>>)
    ELSE Return([annual |-> <<>>, quarterly |-> <<>>])

\* the exceptions the inner except clause catches (continue with the next key)
InnerCaught(exc) == exc \in {"JSONDecodeError", "KeyError", "ValueError"}

Tier2Failed(msg) ==
    [annual |-> <<>>, quarterly |-> <<>>, error |-> "Tier 2 failed: " \o msg]

\* the loop over cache_keys, from key number i on
RECURSIVE Tier2FromKey(_, _)
Tier2FromKey(db, i) ==
    IF i > Len(cache_keys) THEN Tier2Failed("No usable data found in cache")
    ELSE IF db[i].shape = "none" THEN Tier2FromKey(db, i + 1)
    ELSE LET o == CacheKeyEntries(db[i], cache_keys[i]) IN
         IF o.raised
         THEN IF InnerCaught(o.exc) THEN Tier2FromKey(db, i + 1) ELSE Tier2Failed(o.msg)
         ELSE IF NonEmpty(o.value.annual) \/ NonEmpty(o.value.quarterly)
              THEN [annual |-> o.value.annual, quarterly |-> o.value.quarterly,
                    extraction_method |-> "tier2_cache_db",
                    cache_source |-> cache_keys[i]]
              ELSE Tier2FromKey(db, i + 1)

\* tier2_local_cache_db
Tier2LocalCacheDb(db) == Tier2FromKey(db, 1)

(***************************************************************************)
(* Tier 3: tier3_pattern_match_transcripts                                 *)
(***************************************************************************)

\* match.groups() of the transcript patterns; "<None>" is a group that did
\* not take part in the match
TranscriptMatches ==
    {<<"Q3 2023", "100", "million">>, <<"Fiscal 2022", "100", "million">>,
     <<"Q3 2023", ",", "million">>, <<"quarter", "100", "million">>,
     <<"year", "100", "million">>, <<"100", "million">>, <<"100", "Q1">>,
     <<"100", "<None>">>}

TranscriptMatchLists == UNION {[1..n -> TranscriptMatches] : n \in 0..MaxMatches}

Tier3Envs ==
    {[files |-> "none", matches |-> <<>>]}
    \cup {[files |-> "text", matches |-> ms] : ms \in TranscriptMatchLists}

\* groups[0] and groups[1]: the period-first reading of the groups
PeriodFirst(groups) == groups[1] \notin {"", "<None>"} /\ groups[2] \notin {"", "<None>"}

Tier3PeriodStr(groups) ==
    IF PeriodFirst(groups) THEN groups[1]
    ELSE IF Len(groups) > 2 THEN groups[3] ELSE "Q1"

Tier3ValueStr(groups) == IF PeriodFirst(groups) THEN groups[2] ELSE groups[1]

Tier3UnitStr(groups) ==
    IF PeriodFirst(groups)
    THEN (IF Len(groups) > 2 THEN groups[3] ELSE "")
    ELSE groups[2]

\* the match yields an entry: no ValueError from float(), no AttributeError
\* from a None group
Tier3Parses(groups) ==
    /\ Len(groups) >= 2
    /\ Tier3ValueStr(groups) # "<None>"
    /\ ~FloatOfString(StripCommas(Tier3ValueStr(groups))).raised
    /\ Tier3UnitStr(groups) # "<None>"

\* re.search(r'\d{4}', period_str), default 2023
Tier3Year(period_str) == IF period_str = "Fiscal 2022" THEN 2022 ELSE 2023

\* 'fiscal' in period_str.lower() or 'year' in period_str.lower()
Tier3IsAnnual(groups) ==
    Tier3Parses(groups) /\ Tier3PeriodStr(groups) \in {"Fiscal 2022", "year"}

\* re.search(r'Q([1-4])', period_str) found a quarter
Tier3IsQuarterly(groups) ==
    Tier3Parses(groups) /\ Tier3PeriodStr(groups) \in {"Q3 2023", "Q1"}

Tier3Quarter(period_str) == IF period_str = "Q3 2023" THEN "Q3" ELSE "Q1"

Tier3AnnualEntry(groups) ==
    [value |-> FloatOfString(StripCommas(Tier3ValueStr(groups))).value
               * UnitMultiplier(Tier3UnitStr(groups)),
     fiscal_year |-> Tier3Year(Tier3PeriodStr(groups)),
     extraction_method |-> "tier3_transcript_parse",
     period_type |-> "annual"]

Tier3QuarterlyEntry(groups) ==
    [value |-> FloatOfString(StripCommas(Tier3ValueStr(groups))).value
               * UnitMultiplier(Tier3UnitStr(groups)),
     fiscal_year |-> Tier3Year(Tier3PeriodStr(groups)),
     extraction_method |-> "tier3_transcript_parse",
     fiscal_quarter |-> Tier3Quarter(Tier3PeriodStr(groups)),
     period_type |-> "quarterly"]

Tier3Failed(msg) ==
    [annual |-> <<>>, quarterly |-> <<>>, error |-> "Tier 3 failed: " \o msg]

\* tier3_pattern_match_transcripts
Tier3PatternMatchTranscripts(env) ==
    LET annual == DeduplicatePeriods(
                      MapSeq(SelectSeq(env.matches, Tier3IsAnnual), Tier3AnnualEntry),
                      "annual")
        quarterly == DeduplicatePeriods(
                      MapSeq(SelectSeq(env.matches, Tier3IsQuarterly), Tier3QuarterlyEntry),
                      "quarterly")
    IN
    IF env.files = "none" THEN Tier3Failed("No transcript files found")
    ELSE IF NonEmpty(annual) \/ NonEmpty(quarterly)
         THEN [annual |-> annual, quarterly |-> quarterly,
               extraction_method |-> "tier3_transcript_parse",
               source_files |-> "transcripts"]
         ELSE Tier3Failed("No revenue data extracted from transcripts")

BreakerIdle ==
    /\ fail_threshold = 1 /\ window_sec = 1 /\ open_sec = 1 /\ halfopen_max = 1
    /\ now = 0
    /\ fail_events = EmptyDict /\ state = EmptyDict /\ open_until = EmptyDict
    /\ halfopen_inflight = EmptyDict
    /\ pc = [p \in Procs |-> "idle"]
    /\ pkey = [p \in Procs |-> "none"]
    /\ probe = [p \in Procs |-> FALSE]
    /\ tripTime = EmptyDict
    /\ sources = {}

ExtractInit ==
    /\ facts_source \in Sources
    /\ epc = "start"
    /\ eresult = NoResult

\* safe_extract_revenue(facts_source, ticker)
SafeExtractRevenue ==
    LET o == SafeExtractRevenueResult(facts_source) IN
    /\ epc = "start"
    /\ epc' = IF o.raised THEN "raised" ELSE "returned"
    /\ eresult' = IF o.raised THEN o ELSE o.value
    /\ UNCHANGED facts_source

InitExtract == ExtractInit /\ BreakerIdle /\ CascadeIdle /\ CombineIdle /\ ExtraIdle

ExtractNext == SafeExtractRevenue /\ UNCHANGED <<bvars, cvars, pvars, xvars>>

SpecExtract == InitExtract /\ [][ExtractNext]_vars

\* C7: no extraction step raises to its caller: safe_extract_revenue turns
\* every exception into a result with empty annual and quarterly and an error.
C7_NeverRaises == epc # "raised"

\* C8: a result of safe_extract_revenue whose annual and quarterly lists are
\* both empty carries an error field (a result without error has a record).
C8_EmptyHasError ==
    epc = "returned" => (HasData(eresult) \/ "error" \in DOMAIN eresult)

\* the facts of the units.USD list usd that the filter sel keeps and that
\* share fiscal year, fiscal quarter (10-Q only) and end date with fact f
Colliding(usd, sel(_), f) ==
    {i \in 1..Len(usd) :
        /\ sel(usd[i])
        /\ usd[i].fy = f.fy /\ usd[i].end = f.end
        /\ Get(usd[i], "fp", "Q1") = Get(f, "fp", "Q1")}

\* the records of the result list that carry the period of fact f
RecordsOf(list, f) ==
    {j \in 1..Len(list) :
        /\ list[j].fiscal_year = f.fy /\ list[j].end_date = f.end
        /\ Get(list[j], "fiscal_quarter", "Q1") = Get(f, "fp", "Q1")}

\* the list keeps exactly one record for the period of every fact that sel
\* keeps, with the value of one of the facts of that period (the facts of
\* the model all carry the same filed date)
OnePerPeriod(usd, sel(_), list) ==
    \A i \in 1..Len(usd) :
        sel(usd[i]) =>
            /\ Cardinality(RecordsOf(list, usd[i])) = 1
            /\ \A j \in RecordsOf(list, usd[i]) :
                   list[j].value \in {usd[g].val : g \in Colliding(usd, sel, usd[i])}

\* C24: the primary extraction keeps exactly one record for each distinct
\* (fiscal_year, end_date) among the 10-K facts and for each distinct
\* (fiscal_year, fiscal_quarter, end_date) among the 10-Q facts of the source
\* document (the documents of the model stay below the output cap).
C24_OnePerPeriod ==
    (epc = "returned" /\ Get(eresult, "extraction_method", "") = "primary_edgar_facts") =>
        /\ OnePerPeriod(facts_source.data.usd, IsAnnualFact, eresult.annual)
        /\ OnePerPeriod(facts_source.data.usd, IsQuarterlyFact, eresult.quarterly)


(***************************************************************************)
(* revenue_fallback_cascade                                                *)
(***************************************************************************)

\* every result safe_extract_revenue returns for a source of the model
ExtractedResults ==
    {o.value : o \in {r \in {SafeExtractRevenueResult(src) : src \in Sources} : ~r.raised}}

\* results a caller may hand to revenue_fallback_cascade directly
CallerRecord == [value |-> 100, fiscal_year |-> 2023, extraction_method |-> "caller"]

CallerResults ==
    {[annual |-> <<CallerRecord>>, quarterly |-> <<>>, extraction_method |-> "caller"],
     [annual |-> <<>>, quarterly |-> <<CallerRecord>>, extraction_method |-> "caller"],
     [quarterly |-> <<CallerRecord>>],
     [annual |-> <<CallerRecord>>, quarterly |-> <<>>, needs_fallback |-> FALSE],
     [annual |-> <<CallerRecord>>, quarterly |-> <<>>, needs_fallback |-> TRUE],
     [annual |-> <<>>, quarterly |-> <<CallerRecord>>, needs_fallback |-> TRUE,
      error |-> "stale"],
     [annual |-> <<>>, quarterly |-> <<>>, error |-> "caller error"],
     [annual |-> <<>>, quarterly |-> <<>>]}

\* a test on primary_result that looks at the annual list only
PrimarySucceededAnnualOnly(r) ==
    NonEmpty(Get(r, "annual", <<>>)) /\ ~Get(r, "needs_fallback", FALSE)

\* the test on primary_result: data, and no needs_fallback flag
PrimarySucceeded(r) == HasData(r) /\ ~Get(r, "needs_fallback", FALSE)

\* a test on a tier's result that looks at the annual list only
TierSucceededAnnualOnly(r) == NonEmpty(Get(r, "annual", <<>>))

\* the test on a tier's result
TierSucceeded(r) == HasData(r)

\* the structured failure the cascade returns when every tier failed
CascadeFailure(p, t1, t2, t3) ==
    [annual |-> <<>>, quarterly |-> <<>>,
     error |-> "All fallback tiers failed",
     extraction_method |-> "cascade_failure",
     tier_results |-> [primary |-> Get(p, "error", "Unknown"),
                       tier1 |-> Get(t1, "error", "Unknown"),
                       tier2 |-> Get(t2, "error", "Unknown"),
                       tier3 |-> Get(t3, "error", "Unknown")]]

CascadeInit ==
    /\ \/ primary_result \in ExtractedResults /\ origin = "safe_extract_revenue"
       \/ primary_result \in CallerResults /\ origin = "caller"
    /\ cpc = "start"
    /\ tier1_result = NoResult
    /\ tier2_result = NoResult
    /\ tier3_result = NoResult
    /\ invoked = <<>>
    /\ ret = NoResult

\* revenue_fallback_cascade, up to the call of tier 1
CheckPrimary ==
    /\ cpc = "start"
    /\ IF PrimarySucceeded(primary_result)
       THEN cpc' = "returned" /\ ret' = primary_result
       ELSE cpc' = "tier1" /\ ret' = ret
    /\ UNCHANGED <<primary_result, origin, tier1_result, tier2_result, tier3_result, invoked>>

\* what each tier returns over the cached files, cache entries and transcripts
\* of the model
Tier1Results == {Tier1ParseLocalFilings(env) : env \in Tier1Envs}

Tier2Results == {Tier2LocalCacheDb(db) : db \in Tier2Envs}

Tier3Results == {Tier3PatternMatchTranscripts(env) : env \in Tier3Envs}

\* tier1_result = self.tier1_parse_local_filings(ticker), and the test on it
CallTier1 ==
    /\ cpc = "tier1"
    /\ \E r \in Tier1Results : tier1_result' = r
    /\ invoked' = Append(invoked, "tier1")
    /\ IF TierSucceeded(tier1_result')
       THEN cpc' = "returned" /\ ret' = tier1_result'
       ELSE cpc' = "tier2" /\ ret' = ret
    /\ UNCHANGED <<primary_result, origin, tier2_result, tier3_result>>

\* tier2_result = self.tier2_local_cache_db(ticker), and the test on it
CallTier2 ==
    /\ cpc = "tier2"
    /\ \E r \in Tier2Results : tier2_result' = r
    /\ invoked' = Append(invoked, "tier2")
    /\ IF TierSucceeded(tier2_result')
       THEN cpc' = "returned" /\ ret' = tier2_result'
       ELSE cpc' = "tier3" /\ ret' = ret
    /\ UNCHANGED <<primary_result, origin, tier1_result, tier3_result>>

\* tier3_result = self.tier3_pattern_match_transcripts(ticker), the test on
\* it, and the structured failure
CallTier3 ==
    /\ cpc = "tier3"
    /\ \E r \in Tier3Results : tier3_result' = r
    /\ invoked' = Append(invoked, "tier3")
    /\ cpc' = "returned"
    /\ ret' = IF TierSucceeded(tier3_result')
              THEN tier3_result'
              ELSE CascadeFailure(primary_result, tier1_result, tier2_result, tier3_result')
    /\ UNCHANGED <<primary_result, origin, tier1_result, tier2_result>>

CascadeFrame == UNCHANGED <<bvars, evars, pvars, xvars>>

CascadeNext ==
    \/ CheckPrimary /\ CascadeFrame
    \/ CallTier1 /\ CascadeFrame
    \/ CallTier2 /\ CascadeFrame
    \/ CallTier3 /\ CascadeFrame

InitCascade == CascadeInit /\ BreakerIdle /\ ExtractIdle /\ CombineIdle /\ ExtraIdle

SpecCascade == InitCascade /\ [][CascadeNext]_vars

\* a result has a non-empty annual or a non-empty quarterly list
Usable(r) ==
    \/ ("annual" \in DOMAIN r /\ Len(r.annual) > 0)
    \/ ("quarterly" \in DOMAIN r /\ Len(r.quarterly) > 0)

TierOrder == <<"tier1", "tier2", "tier3">>

ResultOfTier(name) ==
    IF name = "tier1" THEN tier1_result
    ELSE IF name = "tier2" THEN tier2_result
    ELSE tier3_result

\* C4: when primary_result has no usable data, the cascade invokes tier 1,
\* tier 2, tier 3 in that order, invokes no tier after one whose result has a
\* non-empty annual or quarterly list, and returns that tier's result unchanged.
C4_FirstUsableTier ==
    /\ Len(invoked) <= Len(TierOrder)
    /\ invoked = SubSeq(TierOrder, 1, Len(invoked))
    /\ \A i \in 1..Len(invoked) : Usable(ResultOfTier(invoked[i])) => i = Len(invoked)
    /\ (cpc = "returned" /\ ~Usable(primary_result)) =>
          /\ Len(invoked) >= 1
          /\ IF Usable(ResultOfTier(invoked[Len(invoked)]))
             THEN ret = ResultOfTier(invoked[Len(invoked)])
             ELSE Len(invoked) = Len(TierOrder) /\ ~Usable(ret)

\* C4 witness: primary and tier 1 failed, tier 2 succeeded and its result is
\* what the cascade returned
C4_Witness ==
    /\ cpc = "returned" /\ ~Usable(primary_result)
    /\ invoked = <<"tier1", "tier2">>
    /\ ~Usable(tier1_result) /\ Usable(tier2_result)
    /\ ret = tier2_result /\ ret.extraction_method = "tier2_cache_db"

C6_FailureCarriesErrors ==
    (/\ cpc = "returned" /\ origin = "safe_extract_revenue"
     /\ ~Usable(primary_result)
     /\ Len(invoked) = Len(TierOrder) /\ ~Usable(tier3_result)) =>
        /\ ~Usable(ret) /\ "error" \in DOMAIN ret
        /\ "tier_results" \in DOMAIN ret
        /\ DOMAIN ret.tier_results = {"primary", "tier1", "tier2", "tier3"}
        /\ "error" \in DOMAIN primary_result
        /\ ret.tier_results.primary = primary_result.error
        /\ "error" \in DOMAIN tier1_result /\ ret.tier_results.tier1 = tier1_result.error
        /\ "error" \in DOMAIN tier2_result /\ ret.tier_results.tier2 = tier2_result.error
        /\ "error" \in DOMAIN tier3_result /\ ret.tier_results.tier3 = tier3_result.error

\* the results of the primary extraction and of the tiers that exist so far
ExtractionResults ==
    {r \in {tier1_result, tier2_result, tier3_result} : r # NoResult}
    \cup (IF origin = "safe_extract_revenue" THEN {primary_result} ELSE {})

\* a list of periods ordered by fiscal_year, most recent first
RecentFirst(list) ==
    \A i, j \in 1..Len(list) : i < j => list[i].fiscal_year >= list[j].fiscal_year

\* C18: every result of the primary extraction and of tier 1, 2 and 3 holds
\* at most 5 annual and at most 20 quarterly records, each list ordered by
\* fiscal_year descending.
C18_CappedRecentFirst ==
    \A r \in ExtractionResults :
        /\ Len(Get(r, "annual", <<>>)) <= AnnualCap
        /\ Len(Get(r, "quarterly", <<>>)) <= QuarterlyCap
        /\ RecentFirst(Get(r, "annual", <<>>))
        /\ RecentFirst(Get(r, "quarterly", <<>>))

(***************************************************************************)
(* financial_tabulator: tables, normalize_record, tabulate                 *)
(*                                                                         *)
(* A cell of a table is Null (None / NaN) or Cell(v).  A table is a record *)
(* with the set of its columns and the sequence of its rows; a row is a    *)
(* function from the columns to cells.  pd.DataFrame([]) has no columns.   *)
(***************************************************************************)
MaxRows == 2

Null == <<>>
Cell(v) == <<v>>

Abs(x) == IF x < 0 THEN 0 - x ELSE x

KEY == <<"ticker", "fiscal_year", "fiscal_quarter", "period_end", "currency">>

KeySet == {KEY[i] : i \in 1..Len(KEY)}

\* self.value_cols of IntegrationPipeline(value_cols=["revenue"])
value_cols == <<"revenue">>

ValueSet == {value_cols[i] : i \in 1..Len(value_cols)}

\* the canonical fields that the tables of the model carry
CANONICAL_FIELDS == KeySet \cup ValueSet

Tickers == {"A"}

\* the fiscal year and the revenue of the annual periods the sources report
YearRevenues ==
    {<<2022, Cell(100)>>, <<2022, Cell(200)>>, <<2023, Null>>, <<2023, Cell(200)>>}

\* the records a caller builds for one annual period: the items of the dict
\* in insertion order
InputRecords ==
    {<<<<"ticker", Cell(t)>>, <<"fiscal_year", Cell(yv[1])>>, <<"currency", Cell("USD")>>,
       <<"revenue", yv[2]>>>> : t \in Tickers, yv \in YearRevenues}

RecordLists == UNION {[1..n -> InputRecords] : n \in 0..MaxRows}

\* the aliases of the canonical fields that the tables of the model carry
ALIASES ==
    [fy |-> "fiscal_year", year |-> "fiscal_year", q |-> "fiscal_quarter",
     quarter |-> "fiscal_quarter", date |-> "period_end", period |-> "period_end",
     rev |-> "revenue", sales |-> "revenue"]

NUMERIC_FIELDS == {"revenue"}

\* A string whose characters matter is Text(chars), chars the sequence of its
\* characters; a number n stands for the float n.0.
Text(chars) == <<"str", chars>>

IsText(v) == Len(v) = 2

DigitChars == <<"0", "1", "2", "3", "4", "5", "6", "7", "8", "9">>

IsDigit(c) == \E i \in 1..10 : DigitChars[i] = c

DigitValue(c) == (CHOOSE i \in 1..10 : DigitChars[i] = c) - 1

RECURSIVE DigitsOf(_)
DigitsOf(n) ==
    IF n < 10 THEN <<DigitChars[n + 1]>>
    ELSE DigitsOf(n \div 10) \o <<DigitChars[(n % 10) + 1]>>

\* str(x) of a float with no fraction, or of a string
StrOf(v) ==
    IF IsText(v) THEN v[2]
    ELSE (IF v[1] < 0 THEN <<"-">> ELSE <<>>) \o DigitsOf(Abs(v[1])) \o <<".", "0">>

\* s.replace(c, "")
Remove(s, c) == SelectSeq(s, LAMBDA x : x # c)

EndsWith(s, c) == Len(s) > 0 /\ s[Len(s)] = c

\* the characters float() strips from both ends of its argument
Whitespace == {" ", "\t"}

RECURSIVE Strip(_)
Strip(s) ==
    IF s = <<>> THEN s
    ELSE IF Head(s) \in Whitespace THEN Strip(Tail(s))
    ELSE IF s[Len(s)] \in Whitespace THEN Strip(SubSeq(s, 1, Len(s) - 1))
    ELSE s

RECURSIVE DigitsValue(_)
DigitsValue(ds) ==
    IF ds = <<>> THEN 0
    ELSE DigitsValue(SubSeq(ds, 1, Len(ds) - 1)) * 10 + DigitValue(ds[Len(ds)])

\* float(s) on a character sequence: an optional sign, digits and an optional
\* fraction of zeros, with whitespace around them; ValueError otherwise
FloatOfChars(s) ==
    LET t == Strip(s)
        neg == Len(t) > 0 /\ Head(t) = "-"
        u == IF neg THEN Tail(t) ELSE t
        dots == {i \in 1..Len(u) : u[i] = "."}
        whole == IF dots = {} THEN u ELSE SubSeq(u, 1, (CHOOSE i \in dots : TRUE) - 1)
        frac == IF dots = {} THEN <<>>
                ELSE SubSeq(u, (CHOOSE i \in dots : TRUE) + 1, Len(u))
    IN  IF /\ Cardinality(dots) <= 1
           /\ Len(whole) + Len(frac) > 0
           /\ \A i \in 1..Len(whole) : IsDigit(whole[i])
           /\ \A i \in 1..Len(frac) : frac[i] = "0"
        THEN Return(IF neg THEN 0 - DigitsValue(whole) ELSE DigitsValue(whole))
        ELSE Raise("ValueError", "could not convert string to float")

\* a cast that reads a number without suffix as thousands
NumericCastThousands(v) ==
    IF v = Null THEN Null
    ELSE LET s == Remove(Remove(StrOf(v), ","), " ")
             front == SubSeq(s, 1, Len(s) - 1)
             scaled(f, by) == IF f.raised THEN Null ELSE Cell(f.value * by)
         IN  IF EndsWith(s, "M") THEN scaled(FloatOfChars(front), 1000000)
             ELSE IF EndsWith(s, "B") THEN scaled(FloatOfChars(front), 1000000000)
             ELSE scaled(FloatOfChars(IF EndsWith(s, "K") THEN front ELSE s), 1000)

\* the cast of a numeric field: None stays None, every exception gives None
NumericCast(v) ==
    IF v = Null THEN Null
    ELSE LET s == Remove(Remove(StrOf(v), ","), " ")
             front == SubSeq(s, 1, Len(s) - 1)
             scaled(f, by) == IF f.raised THEN Null ELSE Cell(f.value * by)
         IN  IF EndsWith(s, "M") THEN scaled(FloatOfChars(front), 1000000)
             ELSE IF EndsWith(s, "B") THEN scaled(FloatOfChars(front), 1000000000)
             ELSE IF EndsWith(s, "K") THEN scaled(FloatOfChars(front), 1000)
             ELSE scaled(FloatOfChars(s), 1)

\* a key taken as it is, without the alias map
LiteralKey(k) == k

\* the key under which normalize_record stores the item of key k
CanonicalKey(k) == IF k \in DOMAIN ALIASES THEN ALIASES[k] ELSE k

\* normalize_record on the items of a dict: of the items that map to a
\* canonical field the last one is kept, every canonical field without an item
\* is None, and the numeric fields are cast
NormalizeRecord(r) ==
    [k \in CANONICAL_FIELDS |->
        LET items == {i \in 1..Len(r) : CanonicalKey(r[i][1]) = k}
            v == IF items = {} THEN Null
                 ELSE r[CHOOSE i \in items : \A j \in items : j <= i][2]
        IN  IF k \in NUMERIC_FIELDS THEN NumericCast(v) ELSE v]

\* the order of the strings that occur in the tables
StringOrder == <<"2022-12-31", "A", "B", "USD">>

Rank(col, v) ==
    IF col \in {"ticker", "period_end", "currency"}
    THEN CHOOSE i \in 1..Len(StringOrder) : StringOrder[i] = v
    ELSE v

\* the order of two cells of a column under na_position="last"
CellLess(col, a, b) ==
    IF a = Null THEN FALSE
    ELSE IF b = Null THEN TRUE
    ELSE Rank(col, a[1]) < Rank(col, b[1])

RECURSIVE RowLess(_, _, _)
RowLess(by, r1, r2) ==
    IF by = <<>> THEN FALSE
    ELSE IF CellLess(Head(by), r1[Head(by)], r2[Head(by)]) THEN TRUE
    ELSE IF CellLess(Head(by), r2[Head(by)], r1[Head(by)]) THEN FALSE
    ELSE RowLess(Tail(by), r1, r2)

InsertRow(sorted, r, by) ==
    LET pos == Cardinality({i \in 1..Len(sorted) : ~RowLess(by, r, sorted[i])})
    IN  SubSeq(sorted, 1, pos) \o <<r>> \o SubSeq(sorted, pos + 1, Len(sorted))

\* DataFrame.sort_values(by=[...], na_position="last"): a stable sort
RECURSIVE SortValues(_, _)
SortValues(rows, by) ==
    IF rows = <<>> THEN <<>>
    ELSE InsertRow(SortValues(SubSeq(rows, 1, Len(rows) - 1), by), rows[Len(rows)], by)

EmptyFrame == [columns |-> {}, rows |-> <<>>]

Tabulate(records) ==
    LET rows == MapSeq(records, NormalizeRecord) IN
    IF rows = <<>> THEN EmptyFrame
    ELSE [columns |-> CANONICAL_FIELDS,
          rows |-> SortValues(rows, <<"ticker", "fiscal_year", "fiscal_quarter", "period_end">>)]

(***************************************************************************)
(* financial_tabulator: add_growth_columns and add_cagr_columns            *)
(*                                                                         *)
(* Percentages are whole numbers (the float result rounded down).  A value *)
(* column that is None in every row is treated like a float column of NaN. *)
(***************************************************************************)
RECURSIVE Distinct(_)
Distinct(seq) ==
    IF seq = <<>> THEN <<>>
    ELSE <<Head(seq)>> \o Distinct(SelectSeq(Tail(seq), LAMBDA x : x # Head(seq)))

RECURSIVE Concat(_)
Concat(seqs) == IF seqs = <<>> THEN <<>> ELSE Head(seqs) \o Concat(Tail(seqs))

WithColumn(r, c, v) == [k \in DOMAIN r \cup {c} |-> IF k = c THEN v ELSE r[k]]

DropColumns(r, keep) == [k \in keep |-> r[k]]

\* the groups of groupby("ticker", dropna=False), in the order of the group
\* keys, each sorted by fiscal_year, fiscal_quarter, period_end
TickerGroups(rows) ==
    LET tickers == Distinct(MapSeq(SortValues(rows, <<"ticker">>), LAMBDA r : r["ticker"]))
    IN  MapSeq(tickers, LAMBDA t :
            SortValues(SelectSeq(rows, LAMBDA r : r["ticker"] = t),
                       <<"fiscal_year", "fiscal_quarter", "period_end">>))

\* (cur - prev) / abs(prev) * 100, inf and NaN becoming null; the quotient is
\* rounded down to a whole percent
PercentChange(cur, prev) ==
    IF cur = Null \/ prev = Null THEN Null
    ELSE IF prev[1] = 0 THEN Null
    ELSE Cell(((cur[1] - prev[1]) * 100) \div Abs(prev[1]))

GrowthOfGroup(group, cols) ==
    [i \in 1..Len(group) |->
        [k \in DOMAIN group[i] \cup {c \o "_growth_pct" : c \in cols} |->
            IF k \in DOMAIN group[i] THEN group[i][k]
            ELSE LET c == CHOOSE c \in cols : c \o "_growth_pct" = k
                 IN  IF i = 1 THEN Null ELSE PercentChange(group[i][c], group[i - 1][c])]]

AddGrowthColumns(df, cols) ==
    [columns |-> df.columns \cup {c \o "_growth_pct" : c \in cols},
     rows |-> Concat(MapSeq(TickerGroups(df.rows), LAMBDA g : GrowthOfGroup(g, cols)))]

\* (f / 10^4) ^ n in fixed point with four decimals
RECURSIVE FixedPow(_, _)
FixedPow(f, n) == IF n = 0 THEN 10000 ELSE (FixedPow(f, n - 1) * f) \div 10000

\* financial_metrics.cagr: (pow(end / start, 1 / periods) - 1) * 100 as a whole
\* percent (rounded down); null for a null argument, for start <= 0 or
\* periods <= 0, and where math.pow raises (a negative base with a fractional
\* exponent)
Cagr(start, end, periods) ==
    IF start = Null \/ end = Null THEN Null
    ELSE IF start[1] <= 0 \/ periods <= 0 THEN Null
    ELSE IF periods = 1 THEN Cell(((end[1] - start[1]) * 100) \div start[1])
    ELSE IF end[1] < 0 THEN Null
    ELSE IF end[1] = 0 THEN Cell(0 - 100)
    ELSE LET ratio == (end[1] * 10000) \div start[1]
             floor(g) == /\ FixedPow((100 + g) * 100, periods) <= ratio
                         /\ FixedPow((101 + g) * 100, periods) > ratio
         IN  IF end[1] >= start[1]
             THEN Cell(CHOOSE g \in 0..((end[1] * 100) \div start[1] - 100) : floor(g))
             ELSE Cell(0 - (CHOOSE h \in 1..100 : floor(0 - h)))

CagrOfGroup(group, cols, window) ==
    LET n == Len(group)
        total(c) == IF n >= 2 THEN Cagr(group[1][c], group[n][c], Max(1, n - 1)) ELSE Null
        rolling(c, i) == IF i - window < 1 THEN Null
                         ELSE Cagr(group[i - window][c], group[i][c], window)
        added == {c \o "_CAGR_pct_total" : c \in cols} \cup {c \o "_CAGR_pct_3y" : c \in cols}
    IN  [i \in 1..n |->
            [k \in DOMAIN group[i] \cup added |->
                IF k \in DOMAIN group[i] THEN group[i][k]
                ELSE IF \E c \in cols : c \o "_CAGR_pct_total" = k
                THEN total(CHOOSE c \in cols : c \o "_CAGR_pct_total" = k)
                ELSE rolling(CHOOSE c \in cols : c \o "_CAGR_pct_3y" = k, i)]]

AddCagrColumns(df, cols, window) ==
    [columns |-> df.columns \cup {c \o "_CAGR_pct_total" : c \in cols}
                            \cup {c \o "_CAGR_pct_3y" : c \in cols},
     rows |-> Concat(MapSeq(TickerGroups(df.rows), LAMBDA g : CagrOfGroup(g, cols, window)))]

(***************************************************************************)
(* IntegrationPipeline: _post and combine                                  *)
(***************************************************************************)
KeyOf(r) == [k \in KeySet |-> r[k]]

NonNullCount(r, cols) == Cardinality({c \in cols : r[c] # Null})

\* drop_duplicates(subset=KEY, keep="last")
RECURSIVE DropDuplicatesKeepLast(_)
DropDuplicatesKeepLast(rows) ==
    IF rows = <<>> THEN <<>>
    ELSE LET last == rows[Len(rows)]
             front == SubSeq(rows, 1, Len(rows) - 1)
         IN  DropDuplicatesKeepLast(SelectSeq(front, LAMBDA r : KeyOf(r) # KeyOf(last)))
                 \o <<last>>

\* a sort by the join key alone
KeyOrder == KEY

\* the columns _post sorts by before drop_duplicates(keep="last")
PostOrder == KEY \o <<"_nonnull">>

\* _post of a pipeline whose value_cols are vcols
PostWith(df, vcols) ==
    IF Len(df.rows) = 0 THEN df
    ELSE LET valcols == vcols \cap df.columns
             kept == IF valcols # {}
                     THEN SelectSeq(df.rows, LAMBDA r : NonNullCount(r, valcols) > 0)
                     ELSE df.rows
             counted == MapSeq(kept, LAMBDA r :
                            WithColumn(r, "_nonnull", Cell(NonNullCount(r, valcols))))
             deduped == DropDuplicatesKeepLast(SortValues(counted, PostOrder))
         IN  [columns |-> df.columns,
              rows |-> MapSeq(deduped, LAMBDA r : DropColumns(r, df.columns))]

\* _post of IntegrationPipeline(value_cols=["revenue"])
Post(df) == PostWith(df, ValueSet)

\* the column c of a source after the renaming of combine
Suffixed(c, suffix) == IF c \in KeySet THEN c ELSE c \o suffix

Renamed(df, suffix) ==
    LET cols == {Suffixed(c, suffix) : c \in df.columns} IN
    [columns |-> cols,
     rows |-> MapSeq(df.rows, LAMBDA r :
                  [n \in cols |-> r[CHOOSE c \in df.columns : Suffixed(c, suffix) = n]])]

NullRow(cols) == [n \in cols |-> Null]

JoinRow(key, l, r, lcols, rcols) ==
    [n \in lcols \cup rcols |->
        IF n \in KeySet THEN key[n] ELSE IF n \in lcols THEN l[n] ELSE r[n]]

Matches(rows, key) == SelectSeq(rows, LAMBDA r : KeyOf(r) = key)

RECURSIVE LeftJoin(_, _, _)
LeftJoin(i, s, e) ==
    IF i > Len(s.rows) THEN <<>>
    ELSE LET l == s.rows[i]
             m == Matches(e.rows, KeyOf(l))
         IN  (IF m = <<>>
              THEN <<JoinRow(KeyOf(l), l, NullRow(e.columns), s.columns, e.columns)>>
              ELSE MapSeq(m, LAMBDA r : JoinRow(KeyOf(l), l, r, s.columns, e.columns)))
                 \o LeftJoin(i + 1, s, e)

RightOnly(s, e) ==
    MapSeq(SelectSeq(e.rows, LAMBDA r : Matches(s.rows, KeyOf(r)) = <<>>),
           LAMBDA r : JoinRow(KeyOf(r), NullRow(s.columns), r, s.columns, e.columns))

\* pd.merge(s, e, on=KEY, how="outer")
Merge(s, e) ==
    LET missing == {i \in 1..Len(KEY) : KEY[i] \notin s.columns \/ KEY[i] \notin e.columns} IN
    IF missing # {}
    THEN Raise("KeyError", KEY[CHOOSE i \in missing : \A j \in missing : i <= j])
    ELSE Return([columns |-> s.columns \cup e.columns,
                 rows |-> SortValues(LeftJoin(1, s, e) \o RightOnly(s, e), KEY)])

\* a value taken from b where a is null
CombineOtherFirst(a, b) == IF b # Null THEN b ELSE a

\* Series.combine_first
CombineFirst(a, b) == IF a # Null THEN a ELSE b

CombineResult(sdf, edf, p) ==
    LET m == Merge(Renamed(sdf, "__scraped"), Renamed(edf, "__edgar")) IN
    IF m.raised THEN m
    ELSE
    LET cols == m.value.columns
        resolvable == {c \in ValueSet : c \o "__scraped" \in cols \/ c \o "__edgar" \in cols}
        onesided == {c \in resolvable : c \o "__scraped" \notin cols \/ c \o "__edgar" \notin cols}
        resolved == MapSeq(m.value.rows, LAMBDA r :
                        [n \in cols \cup resolvable |->
                            IF n \notin resolvable THEN r[n]
                            ELSE IF p = "edgar"
                            THEN CombineFirst(r[n \o "__edgar"], r[n \o "__scraped"])
                            ELSE CombineFirst(r[n \o "__scraped"], r[n \o "__edgar"])])
        keep == {c \in cols \cup resolvable : c \in KeySet \/ c \in ValueSet}
        kept == SortValues(MapSeq(resolved, LAMBDA r : DropColumns(r, keep)), KEY)
        present == {c \in ValueSet : c \in keep}
    IN  IF onesided # {}
        THEN Raise("AttributeError", "'NoneType' object has no attribute 'combine_first'")
        ELSE Return(AddCagrColumns(AddGrowthColumns([columns |-> keep, rows |-> kept], present),
                                   present, 3))

CombineInit ==
    /\ scraped_records \in RecordLists
    /\ edgar_records \in RecordLists
    /\ scraped_df = NoResult
    /\ edgar_df = NoResult
    /\ prefer = "edgar"
    /\ merged = NoResult

\* tabulate(scraped_records)
TabulateScraped ==
    /\ scraped_df = NoResult
    /\ scraped_df' = Tabulate(scraped_records)
    /\ UNCHANGED <<scraped_records, edgar_records, edgar_df, prefer, merged>>

\* dataframe_from_scraped(scraped_records)
DataframeFromScraped ==
    /\ scraped_df = NoResult
    /\ scraped_df' = Post(Tabulate(scraped_records))
    /\ UNCHANGED <<scraped_records, edgar_records, edgar_df, prefer, merged>>

\* tabulate(edgar_records)
TabulateEdgar ==
    /\ edgar_df = NoResult
    /\ edgar_df' = Tabulate(edgar_records)
    /\ UNCHANGED <<scraped_records, edgar_records, scraped_df, prefer, merged>>

\* dataframe_from_offline_edgar(edgar_records)
DataframeFromOfflineEdgar ==
    /\ edgar_df = NoResult
    /\ edgar_df' = Post(Tabulate(edgar_records))
    /\ UNCHANGED <<scraped_records, edgar_records, scraped_df, prefer, merged>>

\* combine(scraped_df, edgar_df, prefer=p)
Combine(p) ==
    /\ scraped_df # NoResult /\ edgar_df # NoResult /\ merged = NoResult
    /\ prefer' = p
    /\ merged' = CombineResult(scraped_df, edgar_df, p)
    /\ UNCHANGED <<scraped_records, edgar_records, scraped_df, edgar_df>>

CombineFrame == UNCHANGED <<bvars, evars, cvars, xvars>>

CombineNext ==
    \/ TabulateScraped /\ CombineFrame
    \/ DataframeFromScraped /\ CombineFrame
    \/ TabulateEdgar /\ CombineFrame
    \/ DataframeFromOfflineEdgar /\ CombineFrame
    \/ (\E p \in {"edgar", "scraped"} : Combine(p)) /\ CombineFrame

InitCombine == CombineInit /\ BreakerIdle /\ ExtractIdle /\ CascadeIdle /\ ExtraIdle

SpecCombine == InitCombine /\ [][CombineNext]_vars

\* the rows of a table that carry a key
RowsOfKey(df, key) == {i \in 1..Len(df.rows) : KeyOf(df.rows[i]) = key}

\* the values a source offers for a key and a column: those of its rows with
\* that key, or null when it has no such row
Offered(df, key, col) ==
    IF RowsOfKey(df, key) = {} THEN {Null}
    ELSE {df.rows[i][col] : i \in RowsOfKey(df, key)}

PreferredDf == IF prefer = "edgar" THEN edgar_df ELSE scraped_df

OtherDf == IF prefer = "edgar" THEN scraped_df ELSE edgar_df

\* C9: in every row of the table combine returns, every value column holds
\* the preferred source's value for the row's key when that value is non-null
\* and otherwise the other source's value, never a blend of the two.
C9_PreferredWins ==
    (merged # NoResult /\ ~merged.raised) =>
        \A i \in 1..Len(merged.value.rows) : \A col \in ValueSet :
            LET row == merged.value.rows[i] IN
            \E a \in Offered(PreferredDf, KeyOf(row), col) :
            \E b \in Offered(OtherDf, KeyOf(row), col) :
                row[col] = IF a # Null THEN a ELSE b

\* C9 witness: with prefer = "scraped", scraped revenue 100 and edgar revenue
\* 200 for 2022 merged to 100, and a null scraped revenue and edgar revenue 200
\* for 2023 merged to 200
C9_Witness ==
    /\ merged # NoResult /\ ~merged.raised /\ prefer = "scraped"
    /\ Len(merged.value.rows) = 2
    /\ Offered(scraped_df, KeyOf(merged.value.rows[1]), "revenue") = {Cell(100)}
    /\ Offered(edgar_df, KeyOf(merged.value.rows[1]), "revenue") = {Cell(200)}
    /\ merged.value.rows[1]["revenue"] = Cell(100)
    /\ RowsOfKey(scraped_df, KeyOf(merged.value.rows[2])) # {}
    /\ Offered(scraped_df, KeyOf(merged.value.rows[2]), "revenue") = {Null}
    /\ Offered(edgar_df, KeyOf(merged.value.rows[2]), "revenue") = {Cell(200)}
    /\ merged.value.rows[2]["revenue"] = Cell(200)

\* C10: combine is an outer join: it returns a table in which every join key
\* of either input table appears, also when the other table has no row for
\* that key or no rows at all.
C10_OuterJoin ==
    merged # NoResult =>
        /\ ~merged.raised
        /\ \A df \in {scraped_df, edgar_df} : \A i \in 1..Len(df.rows) :
               \E j \in 1..Len(merged.value.rows) :
                   KeyOf(merged.value.rows[j]) = KeyOf(df.rows[i])

(***************************************************************************)
(* Reconciliation of two sources that report the same fiscal period        *)
(***************************************************************************)

\* the records of the fiscal year 2022 of one ticker, as a scraper and the
\* EDGAR converter build them: with or without a period end date
PeriodRecords ==
    {<<<<"ticker", Cell("A")>>, <<"fiscal_year", Cell(2022)>>, <<"currency", Cell("USD")>>,
       <<"revenue", Cell(v)>>>> \o d :
        v \in {100, 200}, d \in {<<>>, <<<<"date", Cell("2022-12-31")>>>>}}

PeriodRecordLists == UNION {[1..n -> PeriodRecords] : n \in 0..MaxRows}

ReconcileInit ==
    /\ scraped_records \in PeriodRecordLists
    /\ edgar_records \in PeriodRecordLists
    /\ scraped_df = NoResult
    /\ edgar_df = NoResult
    /\ prefer = "edgar"
    /\ merged = NoResult

ReconcileNext ==
    \/ DataframeFromScraped /\ CombineFrame
    \/ DataframeFromOfflineEdgar /\ CombineFrame
    \/ (\E p \in {"edgar", "scraped"} : Combine(p)) /\ CombineFrame

InitReconcile == ReconcileInit /\ BreakerIdle /\ ExtractIdle /\ CascadeIdle /\ ExtraIdle

SpecReconcile == InitReconcile /\ [][ReconcileNext]_vars

\* the fiscal period a row describes
PeriodOf(r) == <<r["ticker"], r["fiscal_year"], r["fiscal_quarter"]>>

\* C11: after tabulate, _post on each source and combine, every (ticker,
\* fiscal_year, fiscal_quarter) occurs in at most one row of the merged table.
C11_UniquePeriod ==
    (merged # NoResult /\ ~merged.raised) =>
        \A i, j \in 1..Len(merged.value.rows) :
            PeriodOf(merged.value.rows[i]) = PeriodOf(merged.value.rows[j]) => i = j

(***************************************************************************)
(* financial_tabulator: normalize_record and tabulate on heterogeneous     *)
(* records, each applied to its own result                                 *)
(***************************************************************************)
MaxKeys == 2
MaxText == 3

\* the characters of the values a scraper reports for a numeric field
Chars == {"1", ",", " ", "\t", "K", "M", "B"}

\* the strings of at most one digit: every value they stand for fits the
\* integers of the model
Texts ==
    {t \in UNION {[1..n -> Chars] : n \in 0..MaxText} :
        Cardinality({i \in 1..Len(t) : IsDigit(t[i])}) <= 1}

\* the items of the dicts handed to normalize_record: canonical keys,
\* aliases and a key that is neither
InputItems ==
    {<<"ticker", Cell("A")>>, <<"year", Cell(2022)>>, <<"fiscal_year", Cell(2023)>>,
     <<"rev", Text(<<"1", "K">>)>>, <<"revenue", Cell(100)>>, <<"revenue", Null>>,
     <<"source", Cell("web")>>}

\* dicts of at most MaxKeys items; the keys of a dict are distinct
KeyRecords ==
    {r \in UNION {[1..n -> InputItems] : n \in 0..MaxKeys} :
        \A i, j \in 1..Len(r) : r[i][1] = r[j][1] => i = j}

TextRecords == {<<<<"revenue", Text(t)>>>> : t \in Texts}

NormalizeInputs == KeyRecords \cup TextRecords

\* the records handed to tabulate
TabRecords ==
    {<<<<"ticker", Cell("A")>>, <<"year", Cell(2023)>>, <<"rev", Text(<<"1", "K">>)>>>>,
     <<<<"ticker", Cell("A")>>, <<"fiscal_year", Cell(2022)>>, <<"revenue", Cell(100)>>>>,
     <<<<"ticker", Cell("A")>>, <<"fiscal_year", Cell(2022)>>, <<"sales", Text(<<"1", "\t", "K">>)>>>>,
     <<<<"source", Cell("web")>>>>}

TabLists == UNION {[1..n -> TabRecords] : n \in 0..MaxRows}

\* the columns of the model's tables in the order of ORDER_COLS
ORDER_COLS == <<"ticker", "fiscal_year", "fiscal_quarter", "period_end", "currency", "revenue">>

\* the items of a dict whose keys are canonical fields (the order of the
\* items of such a dict does not change what normalize_record returns)
ItemsOf(d) ==
    MapSeq(SelectSeq(ORDER_COLS, LAMBDA c : c \in DOMAIN d), LAMBDA c : <<c, d[c]>>)

\* the rows of a table as records
RowsOf(df) == MapSeq(df.rows, ItemsOf)

NormalizeInit ==
    /\ tab_in \in TabLists
    /\ norm_in \in IF tab_in = <<>> THEN NormalizeInputs
                   ELSE {tab_in[i] : i \in 1..Len(tab_in)}
    /\ norm_out = NoResult
    /\ norm_twice = NoResult
    /\ tab_out = NoResult
    /\ tab_twice = NoResult

\* normalize_record(norm_in)
NormalizeRecordCall ==
    /\ norm_out = NoResult
    /\ norm_out' = NormalizeRecord(norm_in)
    /\ UNCHANGED <<norm_in, norm_twice, tab_in, tab_out, tab_twice>>

\* normalize_record(norm_out)
NormalizeAgain ==
    /\ norm_out # NoResult /\ norm_twice = NoResult
    /\ norm_twice' = NormalizeRecord(ItemsOf(norm_out))
    /\ UNCHANGED <<norm_in, norm_out, tab_in, tab_out, tab_twice>>

\* tabulate(tab_in)
TabulateCall ==
    /\ tab_out = NoResult
    /\ tab_out' = Tabulate(tab_in)
    /\ UNCHANGED <<norm_in, norm_out, norm_twice, tab_in, tab_twice>>

\* tabulate(the rows of tab_out)
TabulateAgain ==
    /\ tab_out # NoResult /\ tab_twice = NoResult
    /\ tab_twice' = Tabulate(RowsOf(tab_out))
    /\ UNCHANGED <<norm_in, norm_out, norm_twice, tab_in, tab_out>>

NormalizeFrame == UNCHANGED <<bvars, evars, cvars, pvars, mvars, hvars, gvars, ivars, kvars>>

NormalizeNext ==
    \/ NormalizeRecordCall /\ NormalizeFrame
    \/ NormalizeAgain /\ NormalizeFrame
    \/ TabulateCall /\ NormalizeFrame
    \/ TabulateAgain /\ NormalizeFrame

InitNormalize ==
    /\ NormalizeInit /\ BreakerIdle /\ ExtractIdle /\ CascadeIdle /\ CombineIdle
    /\ MetricsIdle /\ ClientsIdle /\ PostIdle /\ MergeIdle /\ CacheIdle

SpecNormalize == InitNormalize /\ [][NormalizeNext]_vars

\* the items of a record that normalize_record stores under field k
ItemsFor(r, k) ==
    {i \in 1..Len(r) : r[i][1] = k \/ (r[i][1] \in DOMAIN ALIASES /\ ALIASES[r[i][1]] = k)}

\* C12: the key set of the record normalize_record returns is exactly the
\* canonical field set: an aliased key is stored under its canonical name, a
\* key that is neither alias nor canonical is dropped, and every canonical
\* field the input lacks is present with value null.
C12_CanonicalKeys ==
    norm_out # NoResult =>
        /\ DOMAIN norm_out = CANONICAL_FIELDS
        /\ \A k \in CANONICAL_FIELDS :
               /\ ItemsFor(norm_in, k) = {} => norm_out[k] = Null
               /\ (k \notin NUMERIC_FIELDS /\ ItemsFor(norm_in, k) # {}) =>
                      \E i \in ItemsFor(norm_in, k) : norm_out[k] = norm_in[i][2]

\* C12 witness: a record with the alias "year" and the unknown key "source"
\* came back with fiscal_year 2022, without "source" and with a null ticker
C12_Witness ==
    /\ norm_out # NoResult
    /\ Len(norm_in) = 2
    /\ {norm_in[1][1], norm_in[2][1]} = {"year", "source"}
    /\ norm_out["fiscal_year"] = Cell(2022)
    /\ norm_out["ticker"] = Null
    /\ "source" \notin DOMAIN norm_out

\* the value the coercion rule gives a string: separators and whitespace
\* removed, a trailing K, M or B as a factor, null when the rest is no number
Coerced(chars) ==
    LET s == SelectSeq(chars, LAMBDA x : x # "," /\ x \notin Whitespace)
        front == SubSeq(s, 1, Len(s) - 1)
        number(t, by) ==
            IF t # <<>> /\ \A i \in 1..Len(t) : IsDigit(t[i])
            THEN Cell(DigitsValue(t) * by) ELSE Null
    IN  IF EndsWith(s, "M") THEN number(front, 1000000)
        ELSE IF EndsWith(s, "B") THEN number(front, 1000000000)
        ELSE IF EndsWith(s, "K") THEN number(front, 1000)
        ELSE number(s, 1)

\* C13: the numeric field of the record normalize_record returns holds the
\* value of the input string with thousands separators and whitespace
\* removed and a trailing K, M or B applied as 1e3, 1e6 or 1e9, or null when
\* that is no number; the other fields are passed through unchanged.
C13_NumericCoercion ==
    norm_out # NoResult =>
        \A i \in 1..Len(norm_in) :
            ItemsFor(norm_in, CanonicalKey(norm_in[i][1])) = {i} =>
                IF CanonicalKey(norm_in[i][1]) \in NUMERIC_FIELDS
                THEN IsText(norm_in[i][2]) =>
                         norm_out[CanonicalKey(norm_in[i][1])] = Coerced(norm_in[i][2][2])
                ELSE CanonicalKey(norm_in[i][1]) \in CANONICAL_FIELDS =>
                         norm_out[CanonicalKey(norm_in[i][1])] = norm_in[i][2]

\* C14: normalize_record applied to its own result returns that result, and
\* tabulate applied to the rows of its own result returns the same columns,
\* values and row order.
C14_Idempotent ==
    /\ norm_twice # NoResult => norm_twice = norm_out
    /\ tab_twice # NoResult => tab_twice = tab_out

\* C14 witness: the string "1K" was cast to 1000 and stayed 1000, and a table
\* whose two records arrived with the later year first stayed as sorted
C14_Witness ==
    /\ norm_twice # NoResult /\ tab_twice # NoResult
    /\ \E i \in 1..Len(norm_in) : IsText(norm_in[i][2])
    /\ norm_twice["revenue"] = Cell(1000)
    /\ Len(tab_in) = 2
    /\ NormalizeRecord(tab_in[1])["fiscal_year"] = Cell(2023)
    /\ tab_twice.rows[1]["fiscal_year"] = Cell(2022)
    /\ tab_twice.rows[2]["revenue"] = Cell(1000)

(***************************************************************************)
(* financial_metrics and GrowthCalculator: growth and CAGR of two values   *)
(*                                                                         *)
(* percent_growth, add_growth_columns and cagr return percentages, held as *)
(* whole percents.  GrowthCalculator returns a record whose value is a     *)
(* fraction (0.5 for 50%), held in hundredths.                             *)
(***************************************************************************)

\* the values handed to the routines as previous / start and current / end
MetricValues == {Null, Cell(0 - 10), Cell(0), Cell(50), Cell(100), Cell(150), Cell(200)}

\* the values handed to cagr and calculate_cagr as periods
MetricPeriods == {Null, Cell(0 - 1), Cell(0), Cell(1), Cell(3), Cell(5)}

\* financial_metrics.percent_growth
PercentGrowth(prev, cur) ==
    IF prev = Null THEN Null
    ELSE IF cur = Null THEN Null
    ELSE IF prev[1] = 0 THEN Null
    ELSE Cell(((cur[1] - prev[1]) * 100) \div Abs(prev[1]))

\* what a method of GrowthCalculator returns
Metric(v, display, note) == Return([value |-> v, display |-> display, note |-> note])

\* an ordering comparison with None, outside what the method catches
NoneCompared == Raise("TypeError", "'<' not supported between instances of 'NoneType' and 'int'")

\* GrowthCalculator.calculate_yoy_growth
CalculateYoyGrowth(cur, prev) ==
    IF prev = Null \/ cur = Null THEN NoneCompared
    ELSE IF prev[1] = 0
    THEN IF cur[1] > 0 THEN Metric(Null, "N/A", "Cannot calculate YoY from zero base")
         ELSE Metric(Cell(0), "0.0%", "No change from zero")
    ELSE IF prev[1] < 0 /\ cur[1] > 0 THEN Metric(Null, "Turnaround", "From loss to profit")
    ELSE IF prev[1] > 0 /\ cur[1] < 0 THEN Metric(Null, "Negative", "From profit to loss")
    ELSE Metric(Cell(((cur[1] - prev[1]) * 100) \div Abs(prev[1])), "percent", "")

\* GrowthCalculator.calculate_cagr
CalculateCagr(start, end, n) ==
    IF n = Null THEN NoneCompared
    ELSE IF n[1] <= 0 THEN Metric(Null, "N/A", "Invalid period count")
    ELSE IF start = Null THEN NoneCompared
    ELSE IF start[1] = 0
    THEN IF end = Null THEN NoneCompared
         ELSE IF end[1] > 0 THEN Metric(Null, "N/A", "Cannot calculate CAGR from zero base")
         ELSE Metric(Cell(0), "0.0%", "No growth from zero base")
    ELSE IF end = Null THEN NoneCompared
    ELSE IF start[1] < 0 /\ end[1] > 0 THEN Metric(Null, "Turnaround", "From loss to profit")
    ELSE IF start[1] > 0 /\ end[1] < 0 THEN Metric(Null, "Negative", "From profit to loss")
    ELSE IF start[1] < 0 /\ end[1] < 0
    THEN IF Abs(end[1]) < Abs(start[1])
         THEN Metric(Cagr(Cell(Abs(end[1])), Cell(Abs(start[1])), n[1]),
                     "percent", "Loss reduction rate")
         ELSE Metric(Cell(0 - Cagr(Cell(Abs(start[1])), Cell(Abs(end[1])), n[1])[1]),
                     "percent", "Loss increase rate")
    ELSE Metric(Cagr(start, end, n[1]), "percent", "")

\* the table of one ticker with the two values in consecutive fiscal years
TwoYearTable(prev, cur) ==
    [columns |-> CANONICAL_FIELDS,
     rows |-> <<[k \in CANONICAL_FIELDS |->
                    IF k = "ticker" THEN Cell("A") ELSE IF k = "fiscal_year" THEN Cell(2022)
                    ELSE IF k = "revenue" THEN prev ELSE Null],
                [k \in CANONICAL_FIELDS |->
                    IF k = "ticker" THEN Cell("A") ELSE IF k = "fiscal_year" THEN Cell(2023)
                    ELSE IF k = "revenue" THEN cur ELSE Null]>>]

MetricsInit ==
    /\ arg_previous \in MetricValues
    /\ arg_current \in MetricValues
    /\ arg_periods \in MetricPeriods
    /\ routine = "none"
    /\ outcome = NoResult

\* percent_growth(previous, current)
PercentGrowthCall ==
    /\ routine = "none"
    /\ routine' = "percent_growth"
    /\ outcome' = Return(PercentGrowth(arg_previous, arg_current))
    /\ UNCHANGED <<arg_previous, arg_current, arg_periods>>

\* add_growth_columns on the table of the two values; a column that holds
\* None only is left out (its dtype is object, not float)
AddGrowthColumnsCall ==
    /\ routine = "none"
    /\ arg_previous # Null \/ arg_current # Null
    /\ routine' = "add_growth_columns"
    /\ outcome' = Return(AddGrowthColumns(TwoYearTable(arg_previous, arg_current),
                                          ValueSet).rows[2]["revenue_growth_pct"])
    /\ UNCHANGED <<arg_previous, arg_current, arg_periods>>

\* GrowthCalculator().calculate_yoy_growth(current, previous)
CalculateYoyGrowthCall ==
    /\ routine = "none"
    /\ routine' = "calculate_yoy_growth"
    /\ outcome' = CalculateYoyGrowth(arg_current, arg_previous)
    /\ UNCHANGED <<arg_previous, arg_current, arg_periods>>

\* cagr(start, end, periods): float(None) raises inside the try
CagrCall ==
    /\ routine = "none"
    /\ routine' = "cagr"
    /\ outcome' = Return(IF arg_periods = Null THEN Null
                         ELSE Cagr(arg_previous, arg_current, arg_periods[1]))
    /\ UNCHANGED <<arg_previous, arg_current, arg_periods>>

\* GrowthCalculator().calculate_cagr(start_value, end_value, periods)
CalculateCagrCall ==
    /\ routine = "none"
    /\ routine' = "calculate_cagr"
    /\ outcome' = CalculateCagr(arg_previous, arg_current, arg_periods)
    /\ UNCHANGED <<arg_previous, arg_current, arg_periods>>

MetricsFrame == UNCHANGED <<bvars, evars, cvars, pvars, nvars, hvars, gvars, ivars, kvars>>

MetricsNext ==
    \/ PercentGrowthCall /\ MetricsFrame
    \/ AddGrowthColumnsCall /\ MetricsFrame
    \/ CalculateYoyGrowthCall /\ MetricsFrame
    \/ CagrCall /\ MetricsFrame
    \/ CalculateCagrCall /\ MetricsFrame

InitMetrics ==
    /\ MetricsInit /\ BreakerIdle /\ ExtractIdle /\ CascadeIdle /\ CombineIdle
    /\ NormalizeIdle /\ ClientsIdle /\ PostIdle /\ MergeIdle /\ CacheIdle

SpecMetrics == InitMetrics /\ [][MetricsNext]_vars

\* the growth value a routine reported: the percentage, or for GrowthCalculator
\* the value of the record it returned, as a percentage
GrowthValue == IF routine = "calculate_yoy_growth" THEN outcome.value.value ELSE outcome.value

GrowthRoutines == {"percent_growth", "add_growth_columns", "calculate_yoy_growth"}

SameSign(a, b) == (a[1] > 0 /\ b[1] > 0) \/ (a[1] < 0 /\ b[1] < 0)

OppositeSign(a, b) == (a[1] > 0 /\ b[1] < 0) \/ (a[1] < 0 /\ b[1] > 0)

\* C15: every growth routine returns without raising; its value is
\* (current - previous) / |previous| * 100 when previous is non-zero and of
\* the sign of current, and null when previous is null or zero, whatever
\* current is.
C15_GrowthFormula ==
    routine \in GrowthRoutines =>
        /\ ~outcome.raised
        /\ (arg_previous = Null \/ arg_previous = Cell(0)) => GrowthValue = Null
        /\ (arg_previous # Null /\ arg_current # Null /\ SameSign(arg_previous, arg_current)) =>
               GrowthValue = Cell(((arg_current[1] - arg_previous[1]) * 100)
                                      \div Abs(arg_previous[1]))

\* C16: when previous and current have opposite signs, every growth routine
\* reports a null value, and calculate_yoy_growth a qualitative marker with it.
C16_SignChangeNull ==
    (/\ routine \in GrowthRoutines
     /\ arg_previous # Null /\ arg_current # Null
     /\ OppositeSign(arg_previous, arg_current)) =>
        /\ ~outcome.raised
        /\ GrowthValue = Null
        /\ routine = "calculate_yoy_growth" =>
               outcome.value.display \in {"Turnaround", "Negative"}

\* C17: cagr returns null whenever start <= 0 or periods <= 0 and never
\* raises, cagr(100, 100, 5) = 0 and cagr(100, 200, 1) = 100; calculate_cagr
\* returns a null value for periods <= 0 and for a zero start.
C17_CagrBoundary ==
    /\ routine = "cagr" =>
           /\ ~outcome.raised
           /\ (arg_previous # Null /\ arg_previous[1] <= 0) => outcome.value = Null
           /\ (arg_periods # Null /\ arg_periods[1] <= 0) => outcome.value = Null
           /\ (arg_previous = Cell(100) /\ arg_current = Cell(100) /\ arg_periods = Cell(5)) =>
                  outcome.value = Cell(0)
           /\ (arg_previous = Cell(100) /\ arg_current = Cell(200) /\ arg_periods = Cell(1)) =>
                  outcome.value = Cell(100)
    /\ (/\ routine = "calculate_cagr"
        /\ arg_previous # Null /\ arg_current # Null /\ arg_periods # Null
        /\ (arg_periods[1] <= 0 \/ arg_previous[1] = 0)) =>
           /\ ~outcome.raised
           /\ outcome.value.value = Null

(***************************************************************************)
(* The HTTP clients that guard their requests with a breaker:              *)
(* RealDataFinancialScraper, AdvancedScraperClient, OfflineFirstSECClient  *)
(* and AIOptimizedSECClient.  One source (one breaker key) per client.     *)
(* The breaker of a client is the record [failures, circuit, cooled]; the  *)
(* clock is kept as the flag cooled (time has passed open_until).          *)
(***************************************************************************)

Clients == {"real_data", "advanced", "offline_first", "ai_optimized"}

\* the failure count from which a call is still followed
MaxFailures == 6

\* no response arrived: the request timed out or the connection failed
NoResponse == 0

\* the status codes a source answers with
Statuses == {NoResponse, 200, 403, 404, 500}

\* what a source answers to one request: the status, and whether the
\* Cloudflare bypass of AdvancedScraperClient gets through on a 403
Responses ==
    {[status |-> st, bypass |-> FALSE] : st \in Statuses}
        \cup {[status |-> 403, bypass |-> TRUE]}

\* RealDataFinancialScraper: ProductionWindowBreaker(fail_threshold=3, ...)
RealFailThreshold == 3

\* AdvancedScraperClient: CircuitBreaker(fail_threshold=3, reset_timeout=60)
AdvancedFailThreshold == 3

\* AdvancedScraperClient.max_retries
AdvancedMaxRetries == 3

\* OfflineFirstSECClient.circuit_breaker_limit
OfflineBreakerLimit == 3

\* AIOptimizedSECClient.circuit_breaker_limit
AiBreakerLimit == 5

\* AIOptimizedSECClient.max_retries
AiMaxRetries == 2

Breaker == [failures |-> failures, circuit |-> circuit, cooled |-> cooled]

ClosedBreaker == [failures |-> 0, circuit |-> "closed", cooled |-> FALSE]

\* one request of a call: the response it got, whether the breaker allowed
\* the source when the request was sent, and the breaker before and after
\* the client handled the response
Sent(resp, allowed, before, after) ==
    [status |-> resp.status, allowed |-> allowed, before |-> before, after |-> after]

\* a call: the breaker it leaves, the requests it sent and how it ended
Ended(b, tr, how) == [breaker |-> b, trace |-> tr, call |-> how]

\* ProductionWindowBreaker.allow, for one caller at a time
WindowAllow(b) == b.circuit # "open" \/ b.cooled

\* ProductionWindowBreaker.on_attempt: open -> half-open after the cooldown
WindowOnAttempt(b) ==
    IF b.circuit = "open" /\ b.cooled THEN [b EXCEPT !.circuit = "half-open"] ELSE b

\* ProductionWindowBreaker.record_success
WindowRecordSuccess(b) == ClosedBreaker

\* ProductionWindowBreaker.record_failure; failures is the length of the
\* deque of failures inside the window
WindowRecordFailure(b) ==
    LET c == b.failures + 1 IN
    IF c >= RealFailThreshold
    THEN [failures |-> c, circuit |-> "open", cooled |-> FALSE]
    ELSE [b EXCEPT !.failures = c]

\* CircuitBreaker.allow of advanced_scraper_client
CircuitAllow(b) == b.circuit # "open" \/ b.cooled

\* CircuitBreaker.record_success
CircuitRecordSuccess(b) == ClosedBreaker

\* CircuitBreaker.record_failure
CircuitRecordFailure(b) ==
    LET c == b.failures + 1 IN
    IF c >= AdvancedFailThreshold
    THEN [failures |-> c, circuit |-> "open", cooled |-> FALSE]
    ELSE [b EXCEPT !.failures = c]

\* OfflineFirstSECClient._should_attempt_api
ShouldAttemptApi(b) == b.failures < OfflineBreakerLimit

\* OfflineFirstSECClient._record_api_failure
RecordApiFailure(b) == [b EXCEPT !.failures = b.failures + 1]

\* AIOptimizedSECClient._check_circuit_breaker
CheckCircuitBreaker(b) == ~(b.failures >= AiBreakerLimit)

\* RealDataFinancialScraper.extract_real_financial_data, one source of its
\* loop: allow, on_attempt, the request, record_success for status 200 and
\* record_failure for every other status and for an exception
RealDataSource(b, resp) ==
    IF ~WindowAllow(b) THEN Ended(b, <<>>, "blocked")
    ELSE LET attempted == WindowOnAttempt(b)
             after == IF resp.status = 200
                      THEN WindowRecordSuccess(attempted)
                      ELSE WindowRecordFailure(attempted)
         IN  Ended(after, <<Sent(resp, TRUE, attempted, after)>>,
                   IF resp.status = 200 THEN "success" ELSE "failure")

\* the retry loop of AdvancedScraperClient.request from attempt number
\* attempt on: a status below 400 or a Cloudflare bypass that gets through
\* records a success and returns; everything else records a failure and
\* goes round again until attempt exceeds max_retries
RECURSIVE AdvancedAttempts(_, _, _, _)
AdvancedAttempts(b, resps, attempt, tr) ==
    IF attempt > AdvancedMaxRetries + 1 THEN Ended(b, tr, "raised")
    ELSE LET resp == resps[attempt]
             ok == \/ resp.status # NoResponse /\ resp.status < 400
                   \/ resp.status = 403 /\ resp.bypass
             after == IF ok THEN CircuitRecordSuccess(b) ELSE CircuitRecordFailure(b)
             sent == Append(tr, Sent(resp, CircuitAllow(b), b, after))
         IN  IF ok THEN Ended(after, sent, "returned")
             ELSE AdvancedAttempts(after, resps, attempt + 1, sent)

\* AdvancedScraperClient.request: allow is asked once, before the loop
AdvancedRequest(b, resps) ==
    IF ~CircuitAllow(b) THEN Ended(b, <<>>, "raised")
    ELSE AdvancedAttempts(b, resps, 1, <<>>)

\* OfflineFirstSECClient.get_company_facts
OfflineGetCompanyFacts(b, resp) ==
    IF ~ShouldAttemptApi(b) THEN Ended(b, <<>>, "none")
    ELSE IF resp.status = 200 THEN Ended(b, <<Sent(resp, TRUE, b, b)>>, "json")
    ELSE IF resp.status = 404 THEN Ended(b, <<Sent(resp, TRUE, b, b)>>, "none")
    ELSE Ended(RecordApiFailure(b), <<Sent(resp, TRUE, b, RecordApiFailure(b))>>, "none")

\* the loop of AIOptimizedSECClient._make_safe_request from attempt number
\* attempt on
RECURSIVE SafeAttempts(_, _, _, _)
SafeAttempts(b, resps, attempt, tr) ==
    IF attempt > AiMaxRetries THEN Ended(b, tr, "none")
    ELSE LET resp == resps[attempt]
             last == attempt >= AiMaxRetries
             failed == [b EXCEPT !.failures = b.failures + 1]
             recovered == [b EXCEPT !.failures = Max(0, b.failures - 1)]
             allowed == CheckCircuitBreaker(b)
         IN  IF resp.status = 404
             THEN Ended(b, Append(tr, Sent(resp, allowed, b, b)), "none")
             ELSE IF resp.status = 200
             THEN Ended(recovered, Append(tr, Sent(resp, allowed, b, recovered)), "json")
             ELSE IF last
             THEN Ended(failed, Append(tr, Sent(resp, allowed, b, failed)), "none")
             ELSE SafeAttempts(b, resps, attempt + 1, Append(tr, Sent(resp, allowed, b, b)))

\* AIOptimizedSECClient._make_safe_request
MakeSafeRequest(b, resps) ==
    IF ~CheckCircuitBreaker(b) THEN Ended(b, <<>>, "none")
    ELSE SafeAttempts(b, resps, 1, <<>>)

\* the answers of the source to the successive requests of one call
ResponseLists(n) == [1..n -> Responses]

ClientsInit ==
    /\ client \in Clients
    /\ failures = 0
    /\ circuit = "closed"
    /\ cooled = FALSE
    /\ trace = <<>>
    /\ call = "none"

\* the state after a call
After(e) ==
    /\ failures' = e.breaker.failures
    /\ circuit' = e.breaker.circuit
    /\ cooled' = e.breaker.cooled
    /\ trace' = e.trace
    /\ call' = e.call
    /\ UNCHANGED client

ExtractRealFinancialData ==
    /\ client = "real_data"
    /\ failures <= MaxFailures
    /\ \E resp \in Responses : After(RealDataSource(Breaker, resp))

Request ==
    /\ client = "advanced"
    /\ failures <= MaxFailures
    /\ \E resps \in ResponseLists(AdvancedMaxRetries + 1) :
           After(AdvancedRequest(Breaker, resps))

GetCompanyFacts ==
    /\ client = "offline_first"
    /\ \E resp \in Responses : After(OfflineGetCompanyFacts(Breaker, resp))

SafeRequest ==
    /\ client = "ai_optimized"
    /\ \E resps \in ResponseLists(AiMaxRetries) :
           After(MakeSafeRequest(Breaker, resps))

\* reset_circuit_breaker of OfflineFirstSECClient and AIOptimizedSECClient
ResetCircuitBreaker ==
    /\ client \in {"offline_first", "ai_optimized"}
    /\ failures' = 0
    /\ UNCHANGED <<client, circuit, cooled, trace, call>>

\* time passes open_until of the source
CooldownElapsed ==
    /\ client \in {"real_data", "advanced"}
    /\ circuit = "open" /\ ~cooled
    /\ cooled' = TRUE
    /\ UNCHANGED <<client, failures, circuit, trace, call>>

\* time passes window_sec after the oldest failure in the deque of
\* ProductionWindowBreaker, which the next _prune_old_failures drops
WindowElapsed ==
    /\ client = "real_data"
    /\ failures > 0
    /\ failures' = failures - 1
    /\ UNCHANGED <<client, circuit, cooled, trace, call>>

ClientsFrame == UNCHANGED <<bvars, evars, cvars, pvars, nvars, mvars, gvars, ivars, kvars>>

ClientsNext ==
    \/ ExtractRealFinancialData /\ ClientsFrame
    \/ Request /\ ClientsFrame
    \/ GetCompanyFacts /\ ClientsFrame
    \/ SafeRequest /\ ClientsFrame
    \/ ResetCircuitBreaker /\ ClientsFrame
    \/ CooldownElapsed /\ ClientsFrame
    \/ WindowElapsed /\ ClientsFrame

InitClients ==
    /\ ClientsInit /\ BreakerIdle /\ ExtractIdle /\ CascadeIdle /\ CombineIdle
    /\ NormalizeIdle /\ MetricsIdle /\ PostIdle /\ MergeIdle /\ CacheIdle

SpecClients == InitClients /\ [][ClientsNext]_vars

\* C19: an HTTP 404 response is a definitive negative in every client: the
\* request that got it is the last one of its call (it is not retried), and
\* the failure count and the state of the breaker are the same after the
\* client handled it as they were when the request was sent.
C19_NotFoundDefinitive ==
    \A i \in 1..Len(trace) :
        trace[i].status = 404 =>
            /\ i = Len(trace)
            /\ trace[i].after = trace[i].before

(***************************************************************************)
(* ProductionWindowBreaker: the counter of half-open probes                *)
(***************************************************************************)

\* C20: halfopen_inflight[key] always equals the number of attempts of the
\* key that on_attempt started as half-open probes and that have not called
\* on_attempt_done yet; in particular it is 0 when no attempt is in flight.
C20_InflightCounted ==
    \A k \in sources :
        Get(halfopen_inflight, k, 0) = Cardinality(ProbesInFlight(k))

(***************************************************************************)
(* ProductionWindowBreaker: progress of a key                              *)
(***************************************************************************)

\* the time up to which the clock of the serial caller is followed
MaxSerialTime == 6

\* time.time() advances, for the serial caller
TickSerial ==
    /\ now < MaxSerialTime
    /\ now' = now + 1
    /\ UNCHANGED <<fail_threshold, window_sec, open_sec, halfopen_max, fail_events,
                   state, open_until, halfopen_inflight, pc, pkey, probe, tripTime, sources>>

\* one caller that visits the source again and again, as the loop of
\* RealDataFinancialScraper.extract_real_financial_data does: allow,
\* on_attempt, record_success or record_failure, on_attempt_done
SerialNext ==
    \/ \E k \in sources : Allow("p1", k) /\ BreakerFrame
    \/ OnAttempt("p1") /\ BreakerFrame
    \/ RecordSuccess("p1") /\ BreakerFrame
    \/ RecordFailure("p1") /\ BreakerFrame
    \/ OnAttemptDone("p1") /\ BreakerFrame
    \/ TickSerial /\ BreakerFrame

\* the caller goes on to the end of an attempt it started, and the clock
\* keeps advancing up to MaxSerialTime
SpecBreakerSerial == InitBreaker /\ [][SerialNext]_vars /\ WF_vars(SerialNext)

\* no attempt of key k is between its allow and its on_attempt_done
NoneInFlight(k) == \A p \in Procs : pc[p] = "idle" \/ pkey[p] # k

\* time has advanced past open_until of key k
PastOpenUntil(k) == now > Get(open_until, k, 0)

\* C21: the breaker never blocks a key forever: once no attempt of the key
\* is in flight and time has advanced past its open_until, allow(key)
\* eventually returns true.
C21_NeverBlockedForever ==
    \A k \in {"sec"} :
        (NoneInFlight(k) /\ PastOpenUntil(k)) ~> AllowResult(k)

(***************************************************************************)
(* ProductionWindowBreaker: the sliding window                             *)
(***************************************************************************)

\* the failures of the deque dq that lie within the last window_sec seconds
RecentFailures(dq) == {i \in 1..Len(dq) : dq[i] >= now - window_sec}

\* what get_failure_count(key) returns
FailureCount(k) ==
    Len(PruneOldFailures(Get(fail_events, k, <<>>), now - window_sec))

\* the step moves key k to open: it was not open before, or its cooldown is
\* set anew
MovesToOpen(k) ==
    /\ Get(state', k, "closed") = "open"
    /\ \/ Get(state, k, "closed") # "open"
       \/ Get(open_until', k, 0) # Get(open_until, k, 0)

\* C22: record_failure moves a key to open only if at least fail_threshold
\* failures of the key lie within the last window_sec seconds at that moment;
\* failures older than window_sec are removed before the count is compared,
\* and get_failure_count never counts them.
C22_SlidingWindow ==
    /\ [][\A k \in sources :
              MovesToOpen(k) =>
                  LET dq == Get(fail_events', k, <<>>) IN
                  /\ Cardinality(RecentFailures(dq)) >= fail_threshold
                  /\ RecentFailures(dq) = 1..Len(dq)]_vars
    /\ [](\A k \in sources :
              FailureCount(k) = Cardinality(RecentFailures(Get(fail_events, k, <<>>))))

\* a key that had tripped is probed after its earlier failures have left the
\* window: record_failure has pruned them, counts the new failure alone and
\* leaves the key half-open
C22_Witness ==
    \E p \in Procs :
        /\ pc[p] = "recorded" /\ probe[p]
        /\ pkey[p] \in DOMAIN tripTime
        /\ tripTime[pkey[p]] < now - window_sec
        /\ fail_threshold >= 2
        /\ GetState(pkey[p]) = "half-open"
        /\ Get(fail_events, pkey[p], <<>>) = <<now>>

(***************************************************************************)
(* The HTTP clients: requests and the breaker's allow                      *)
(***************************************************************************)

\* C23: no request is sent to a source while the breaker of the source is
\* open and its cooldown has not elapsed: for every request of a call, the
\* retries included, allow returns true on the breaker as it is when the
\* request is sent.
C23_DispatchAllowed ==
    \A i \in 1..Len(trace) : trace[i].allowed

(***************************************************************************)
(* IntegrationPipeline._post on tables with two value columns              *)
(***************************************************************************)

\* the number of rows of the tables _post is followed on
MaxPostRows == 3

\* self.value_cols of IntegrationPipeline(value_cols=["revenue", "net_income"])
PostValueCols == {"revenue", "net_income"}

\* the rows of the annual periods of one ticker, with each value present or
\* missing
PostRows ==
    {[k \in KeySet \cup PostValueCols |->
         IF k = "ticker" THEN Cell("A")
         ELSE IF k = "fiscal_year" THEN Cell(y)
         ELSE IF k = "currency" THEN Cell("USD")
         ELSE IF k = "revenue" THEN rev
         ELSE IF k = "net_income" THEN inc
         ELSE Null] :
        y \in {2022, 2023}, rev \in {Null, Cell(100), Cell(200)}, inc \in {Null, Cell(10)}}

\* the tables tabulate hands to _post: the rows in the order of its sort
PostTables ==
    {[columns |-> KeySet \cup PostValueCols, rows |-> rows] :
        rows \in {r \in UNION {[1..n -> PostRows] : n \in 0..MaxPostRows} :
                     SortValues(r, <<"ticker", "fiscal_year", "fiscal_quarter", "period_end">>) = r}}

PostInit ==
    /\ post_cols = PostValueCols
    /\ post_in \in PostTables
    /\ post_out = NoResult

\* self._post(df)
PostCall ==
    /\ post_out = NoResult
    /\ post_out' = PostWith(post_in, post_cols)
    /\ UNCHANGED <<post_cols, post_in>>

PostNext ==
    PostCall /\ UNCHANGED <<bvars, evars, cvars, pvars, nvars, mvars, hvars, ivars, kvars>>

InitPost ==
    /\ PostInit /\ BreakerIdle /\ ExtractIdle /\ CascadeIdle /\ CombineIdle
    /\ NormalizeIdle /\ MetricsIdle /\ ClientsIdle /\ MergeIdle /\ CacheIdle

SpecPost == InitPost /\ [][PostNext]_vars

\* the count of non-null value columns of row i of the input
CountOf(i) == NonNullCount(post_in.rows[i], post_cols \cap post_in.columns)

\* of the rows of the input that carry the key, the one with the highest
\* count of non-null value columns, and of those with that count the last
BestOf(key) ==
    CHOOSE i \in RowsOfKey(post_in, key) :
        \A j \in RowsOfKey(post_in, key) :
            CountOf(j) < CountOf(i) \/ (CountOf(j) = CountOf(i) /\ j <= i)

\* the output holds exactly one row of the key: the best row of the input
OneBestRow(key) ==
    /\ Cardinality(RowsOfKey(post_out, key)) = 1
    /\ \A j \in RowsOfKey(post_out, key) : post_out.rows[j] = post_in.rows[BestOf(key)]

\* C25, as stated: _post keeps exactly one row for each join key that occurs
\* in its input, the row with the highest count of non-null value columns and
\* among rows of equal count the later one.
C25_OneRowPerKey ==
    post_out # NoResult =>
        \A i \in 1..Len(post_in.rows) : OneBestRow(KeyOf(post_in.rows[i]))

\* C25, for the keys that have a value: _post keeps exactly one row for each
\* join key that occurs in a row of its input with at least one non-null value
\* column, the row with the highest count of non-null value columns and among
\* rows of equal count the later one; a key whose rows have no value at all
\* has no row in the output.
C25_OneRowPerValuedKey ==
    post_out # NoResult =>
        \A i \in 1..Len(post_in.rows) :
            LET key == KeyOf(post_in.rows[i]) IN
            IF CountOf(BestOf(key)) > 0 THEN OneBestRow(key)
            ELSE RowsOfKey(post_out, key) = {}

\* C25 witness: of two rows of a key the earlier one has both values and the
\* later one has one, a third row ties with the later one, and _post kept the
\* earlier one
C25_Witness ==
    /\ post_out # NoResult /\ Len(post_in.rows) = 3
    /\ KeyOf(post_in.rows[1]) = KeyOf(post_in.rows[2])
    /\ KeyOf(post_in.rows[2]) = KeyOf(post_in.rows[3])
    /\ CountOf(1) = 1 /\ CountOf(2) = 2 /\ CountOf(3) = 1
    /\ post_in.rows[1] # post_in.rows[3]
    /\ post_out.rows = <<post_in.rows[2]>>

(***************************************************************************)
(* IntegrationPipeline.combine: rows without any value                     *)
(***************************************************************************)

\* C26: the table combine returns contains no row whose tracked value
\* columns are all null, whether or not the input tables went through _post.
C26_NoEmptyRows ==
    (merged # NoResult /\ ~merged.raised) =>
        \A i \in 1..Len(merged.value.rows) :
            NonNullCount(merged.value.rows[i], ValueSet \cap merged.value.columns) > 0

(***************************************************************************)
(* add_cagr_columns: the total CAGR of a ticker group                      *)
(***************************************************************************)

\* the non-null cells of column c of a group, in period order
NonNullValues(group, c) ==
    SelectSeq(MapSeq(group, LAMBDA r : r[c]), LAMBDA v : v # Null)

\* the total CAGR from the first and the last non-null value of the group,
\* over the period count periods; null when fewer than two values remain
TotalFromNonNull(group, c, periods) ==
    LET vals == NonNullValues(group, c) IN
    IF Len(vals) < 2 THEN Null ELSE Cagr(vals[1], vals[Len(vals)], periods)

\* C27: the total CAGR of a metric for a ticker group is computed from the
\* first and the last non-null value of the metric in period order, nulls at
\* the start or the end of the series being skipped; the period count is the
\* number of values - 1 (counted over the non-null values, or over all rows
\* of the group: either count is accepted here).
C27_TotalCagrSkipsNulls ==
    (merged # NoResult /\ ~merged.raised) =>
        LET groups == TickerGroups(merged.value.rows) IN
        \A g \in 1..Len(groups) : \A c \in ValueSet \cap merged.value.columns :
            \A i \in 1..Len(groups[g]) :
                groups[g][i][c \o "_CAGR_pct_total"] \in
                    {TotalFromNonNull(groups[g], c, Len(NonNullValues(groups[g], c)) - 1),
                     TotalFromNonNull(groups[g], c, Len(groups[g]) - 1)}

\* ------------------------------------------------------------------------
\* ParallelDataIntegrator._merge_multiple_data_sources
\* ------------------------------------------------------------------------

\* the order of all_annual_sources and all_quarterly_sources
SourceOrder ==
    <<"SEC_EDGAR", "Web_Scraping", "Enterprise_Web_Scraping", "REAL_LIVE_DATA",
      "PDF_Reports">>

RevenueMetrics == {"revenue", "revenues"}

\* period.get('value') is truthy: the key is present and the number is not 0
HasValue(period) == Get(period, "value", 0) # 0

\* fiscal_year of the annual dictionary, period_key of the quarterly one
MergeKey(period, annual) ==
    IF annual THEN <<Get(period, "fiscal_year", 0)>>
    ELSE <<Get(period, "fiscal_year", 0), Get(period, "fiscal_quarter", "Q1")>>

\* the body of the inner loop: one period of one source merged into the
\* entries, which keep the insertion order of the dictionary
MergePeriod(entries, period, source_type, annual) ==
    LET key == MergeKey(period, annual)
        known == \E j \in 1..Len(entries) : entries[j].key = key
        started ==
            IF known THEN entries
            ELSE Append(entries, [key |-> key, revenue |-> Null, net_income |-> Null,
                                  sources |-> <<>>, extraction_methods |-> <<>>])
        i == CHOOSE j \in 1..Len(started) : started[j].key = key
        current == started[i]
        metric == Get(period, "metric", "")
        withRevenue ==
            IF /\ HasValue(period)
               /\ metric \in RevenueMetrics
               /\ (current.revenue = Null \/ source_type = "SEC_EDGAR")
            THEN [current EXCEPT
                    !.revenue = Cell(period.value),
                    !.sources = Append(@, source_type),
                    !.extraction_methods =
                        Append(@, Get(period, "extraction_method", source_type))]
            ELSE current
        withIncome ==
            IF /\ annual
               /\ HasValue(period)
               /\ metric = "net_income"
               /\ (withRevenue.net_income = Null \/ source_type = "SEC_EDGAR")
            THEN [withRevenue EXCEPT !.net_income = Cell(period.value)]
            ELSE withRevenue
    IN [started EXCEPT ![i] = withIncome]

RECURSIVE MergeSource(_, _, _, _)
MergeSource(entries, source_data, source_type, annual) ==
    IF source_data = <<>> THEN entries
    ELSE MergeSource(MergePeriod(entries, Head(source_data), source_type, annual),
                     Tail(source_data), source_type, annual)

PeriodsOf(results, source_type, annual) ==
    IF annual THEN results[source_type].annual ELSE results[source_type].quarterly

RECURSIVE MergeSources(_, _, _, _)
MergeSources(entries, results, n, annual) ==
    IF n > Len(SourceOrder) THEN entries
    ELSE MergeSources(MergeSource(entries, PeriodsOf(results, SourceOrder[n], annual),
                                  SourceOrder[n], annual),
                      results, n + 1, annual)

ExpectedYears == 5

\* merged_data as returned; none of the results of the model carries a
\* 'sources' list, so the collected list is empty
MergeMultipleDataSources(results) ==
    LET annual == MergeSources(<<>>, results, 1, TRUE)
        coverage_years == {annual[i].key[1] : i \in 1..Len(annual)}
        scaled == (Cardinality(coverage_years) * 100) \div ExpectedYears
    IN [annual |-> annual,
        quarterly |-> MergeSources(<<>>, results, 1, FALSE),
        sources |-> {},
        coverage_years |-> coverage_years,
        completeness |-> IF scaled < 100 THEN scaled ELSE 100]

MaxMergeRecords == 2

ListsUpTo(S, n) == UNION {[1..m -> S] : m \in 0..n}

\* the SEC result is what fix_posixpath_error converts from the facts
SecAnnualFacts == {[val |-> v, fy |-> y, form |-> "10-K"] : v \in {0, 100}, y \in {2022, 2023}}
SecQuarterlyFacts == {[val |-> 100, fy |-> 2023, fp |-> q, form |-> "10-Q"] : q \in {"Q1", "Q2"}}

SecResults ==
    {[annual |-> a, quarterly |-> q] :
        a \in {[i \in DOMAIN f |-> ConvertAnnual(f[i])] : f \in ListsUpTo(SecAnnualFacts, 1)},
        q \in {[i \in DOMAIN f |-> ConvertQuarterly(f[i])] : f \in ListsUpTo(SecQuarterlyFacts, 1)}}

\* the records of the scrapers: some carry a metric, some do not
ScrapedAnnual(v, metrics) ==
    {[fiscal_year |-> y, value |-> v, metric |-> m] : y \in {2022, 2023}, m \in metrics}
        \cup {[fiscal_year |-> 2023, value |-> v]}

ScrapedQuarterly(v) ==
    {[fiscal_year |-> 2023, fiscal_quarter |-> q, value |-> v, metric |-> "revenue"] :
        q \in {"Q1", "Q2"}} \cup {[fiscal_year |-> 2023, value |-> v]}

WebResults ==
    {[annual |-> a, quarterly |-> q] :
        a \in ListsUpTo(ScrapedAnnual(90, {"revenue", "net_income"}), MaxMergeRecords),
        q \in ListsUpTo(ScrapedQuarterly(90), 1)}

SmallResults(v, metric) ==
    {[annual |-> a, quarterly |-> <<>>] :
        a \in ListsUpTo({[fiscal_year |-> 2023, value |-> v, metric |-> metric]}, 1)}

MergeInit ==
    /\ merge_in \in
         {[t \in {SourceOrder[n] : n \in 1..Len(SourceOrder)} |->
             IF t = "SEC_EDGAR" THEN sec
             ELSE IF t = "Web_Scraping" THEN web
             ELSE IF t = "Enterprise_Web_Scraping" THEN enhanced
             ELSE IF t = "REAL_LIVE_DATA" THEN real
             ELSE pdf] :
            sec \in SecResults, web \in WebResults,
            enhanced \in SmallResults(70, "revenue"),
            real \in SmallResults(80, "revenue"),
            pdf \in SmallResults(60, "revenues")}
    /\ merge_out = NoResult

\* self._merge_multiple_data_sources(sec_data, web_data, enhanced_data,
\*                                   real_data, pdf_data, ticker)
MergeCall ==
    /\ merge_out = NoResult
    /\ merge_out' = MergeMultipleDataSources(merge_in)
    /\ UNCHANGED merge_in

MergeNext ==
    MergeCall /\ UNCHANGED <<bvars, evars, cvars, pvars, nvars, mvars, hvars, gvars, kvars>>

InitMerge ==
    /\ MergeInit /\ BreakerIdle /\ ExtractIdle /\ CascadeIdle /\ CombineIdle
    /\ NormalizeIdle /\ MetricsIdle /\ ClientsIdle /\ PostIdle /\ CacheIdle

SpecMerge == InitMerge /\ [][MergeNext]_vars

\* the values the SEC result carries for the period
SecValues(key, annual) ==
    LET periods == PeriodsOf(merge_in, "SEC_EDGAR", annual)
    IN {periods[i].value : i \in {j \in 1..Len(periods) :
            MergeKey(periods[j], annual) = key /\ HasValue(periods[j])}}

\* the revenue of the first of the other sources, in their fixed order, that
\* has one for the period
FirstOther(key, annual) ==
    LET all == PeriodsOf(merge_in, "Web_Scraping", annual)
                 \o PeriodsOf(merge_in, "Enterprise_Web_Scraping", annual)
                 \o PeriodsOf(merge_in, "REAL_LIVE_DATA", annual)
                 \o PeriodsOf(merge_in, "PDF_Reports", annual)
        usable(p) == /\ MergeKey(p, annual) = key
                     /\ HasValue(p)
                     /\ Get(p, "metric", "") \in RevenueMetrics
        found == SelectSeq(all, usable)
    IN IF found = <<>> THEN Null ELSE Cell(found[1].value)

ResolvedByTag(entry, annual) ==
    IF SecValues(entry.key, annual) # {}
    THEN entry.revenue \in {Cell(v) : v \in SecValues(entry.key, annual)}
    ELSE entry.revenue = FirstOther(entry.key, annual)

\* C28: the merged revenue of every fiscal year and of every year-quarter is
\* the SEC_EDGAR value whenever the SEC result has a record with a value for
\* the period, and otherwise the value of the first of Web_Scraping,
\* Enterprise_Web_Scraping, REAL_LIVE_DATA, PDF_Reports that has one
C28_ResolvedBySourceTag ==
    merge_out # NoResult =>
        /\ \A i \in 1..Len(merge_out.annual) : ResolvedByTag(merge_out.annual[i], TRUE)
        /\ \A i \in 1..Len(merge_out.quarterly) : ResolvedByTag(merge_out.quarterly[i], FALSE)

(***************************************************************************)
(* ProductionWindowBreaker: two keys on one breaker                        *)
(***************************************************************************)

Keys == {"sec", "web"}

Callers == {"p1", "p2"}

\* __init__ with the four dicts empty; two callers share the breaker and
\* each of them picks its key at every allow
KeysInit ==
    /\ fail_threshold \in 1..MaxThreshold
    /\ window_sec = 1
    /\ open_sec = 1
    /\ halfopen_max = 1
    /\ now = 0
    /\ fail_events = EmptyDict
    /\ state = EmptyDict
    /\ open_until = EmptyDict
    /\ halfopen_inflight = EmptyDict
    /\ pc = [p \in Procs |-> "idle"]
    /\ pkey = [p \in Procs |-> "none"]
    /\ probe = [p \in Procs |-> FALSE]
    /\ tripTime = EmptyDict
    /\ sources = Keys

KeysNext ==
    \/ \E p \in Callers, k \in sources : Allow(p, k) /\ BreakerFrame
    \/ \E p \in Callers : OnAttempt(p) /\ BreakerFrame
    \/ \E p \in Callers : RecordSuccess(p) /\ BreakerFrame
    \/ \E p \in Callers : RecordFailure(p) /\ BreakerFrame
    \/ \E p \in Callers : OnAttemptDone(p) /\ BreakerFrame
    \/ \E k \in sources : GetFailureCount(k) /\ BreakerFrame
    \/ Tick /\ BreakerFrame

InitBreakerKeys == KeysInit /\ ExtractIdle /\ CascadeIdle /\ CombineIdle /\ ExtraIdle

SpecBreakerKeys == InitBreakerKeys /\ [][KeysNext]_vars

\* what a dict holds under a key: nothing, or the value
Entry(d, k) == IF k \in DOMAIN d THEN <<d[k]>> ELSE <<>>

\* all that the breaker holds for key k
KeyView(k) ==
    <<Entry(state, k), Entry(fail_events, k), Entry(open_until, k),
      Entry(halfopen_inflight, k)>>

\* no operation has stored anything for key k
Unused(k) == KeyView(k) = <<<<>>, <<>>, <<>>, <<>>>>

\* the step leaves every key but k as it was
OthersUnchanged(k) == \A j \in sources \ {k} : KeyView(j)' = KeyView(j)

\* C29: the state of the breaker is per key: a key never used is closed
\* (get_state is closed, allow is true), and an operation on key k leaves
\* the state, the failure history, open_until and halfopen_inflight of every
\* other key unchanged
C29_PerKey ==
    /\ [](\A k \in sources : Unused(k) => (GetState(k) = "closed" /\ AllowResult(k)))
    /\ [][/\ \E k \in sources : OthersUnchanged(k)
          /\ \A p \in Procs : pc'[p] # pc[p] => OthersUnchanged(pkey'[p])]_vars

\* one key is open while the other has been used and is closed
C29_Witness ==
    /\ GetState("sec") = "open"
    /\ "web" \in DOMAIN state
    /\ state["web"] = "closed"
    /\ Entry(fail_events, "web") = <<<<>>>>

(***************************************************************************)
(* Tier 2 on its own: the order of the cache keys                          *)
(***************************************************************************)

CacheInit ==
    /\ cache_db \in Tier2Envs
    /\ cache_result = NoResult

\* self.tier2_local_cache_db(ticker)
Tier2Call ==
    /\ cache_result = NoResult
    /\ cache_result' = Tier2LocalCacheDb(cache_db)
    /\ UNCHANGED cache_db

CacheNext ==
    Tier2Call /\ UNCHANGED <<bvars, evars, cvars, pvars, nvars, mvars, hvars, gvars, ivars>>

InitCache ==
    /\ CacheInit /\ BreakerIdle /\ ExtractIdle /\ CascadeIdle /\ CombineIdle
    /\ NormalizeIdle /\ MetricsIdle /\ ClientsIdle /\ PostIdle /\ MergeIdle

SpecCache == InitCache /\ [][CacheNext]_vars

\* the entry under cache key number i, read by itself, gives at least one
\* record
Yields(i) ==
    LET o == CacheKeyEntries(cache_db[i], cache_keys[i]) IN
    /\ cache_db[i].shape # "none"
    /\ ~o.raised
    /\ (NonEmpty(o.value.annual) \/ NonEmpty(o.value.quarterly))

\* the records of cache key number i are what was returned
ReturnedFrom(i) ==
    LET o == CacheKeyEntries(cache_db[i], cache_keys[i]) IN
    /\ "error" \notin DOMAIN cache_result
    /\ cache_result.annual = o.value.annual
    /\ cache_result.quarterly = o.value.quarterly
    /\ cache_result.cache_source = cache_keys[i]

\* C30: tier 2 returns the records of the first of the cache keys
\* <ticker>_revenue_cache, <ticker>_financial_cache, <ticker>_yahoo_data that
\* yields at least one record; an earlier entry that is missing, unparseable
\* or of an unexpected shape never keeps a later key's data from being
\* returned
C30_FirstUsableKey ==
    cache_result # NoResult =>
        \A i \in 1..Len(cache_keys) :
            (Yields(i) /\ \A j \in 1..(i - 1) : ~Yields(j)) => ReturnedFrom(i)
====
